---- MODULE Spec2Model ----
(***************************************************************************)
(* The kitties runtime module (kitties/runtime/src/substratekitties.rs):   *)
(* its storage items are the variables, every dispatchable call is one     *)
(* action, and the private helpers mint and transfer_from are operators    *)
(* from a storage record to a result and a storage record.                 *)
(*                                                                         *)
(* A dispatchable call that returns Err keeps every storage write it made  *)
(* before the failing check (the runtime does not roll a failed call       *)
(* back), so each operator threads the storage through its statements in   *)
(* source order and an error returns the storage as written so far.        *)
(***************************************************************************)
EXTENDS Integers, Sequences, FiniteSets, TLC

\* ------------------------------------------------------------- bounds
\* Accounts are 1..NumAccounts.
NumAccounts == 2
\* T::Hash values are 0..MaxHash; 0 is the all-zero hash.
MaxHash == 1
\* The largest value of a u64 counter, scaled down so that the checked
\* arithmetic reaches its bound.
U64Max == 3
\* Prices given to set_price are 0..MaxPrice; the max_price offered to
\* buy_kitty ranges one further, so that an offer can exceed every price.
MaxPrice == 1
\* Every account's free balance at genesis.
InitialBalance == 1
\* The genesis configuration lists at most MaxGenesis kitties.
MaxGenesis == 0

Accounts == 1..NumAccounts
Hashes == 0..MaxHash
Prices == 0..MaxPrice
Offers == 0..(MaxPrice + 1)

\* ------------------------------------------------------------- storage maps
\* A storage map is a function on the keys that have a value; get returns
\* the value type's default for a key that has none.
ZeroHash == 0
None == -1
NoAccount == 0

Get(m, k, default) == IF k \in DOMAIN m THEN m[k] ELSE default
Insert(m, k, v) == [x \in (DOMAIN m) \cup {k} |-> IF x = k THEN v ELSE m[x]]
Remove(m, k) == [x \in (DOMAIN m) \ {k} |-> m[x]]
Exists(m, k) == k \in DOMAIN m
EmptyMap == << >>

checked_add(x, y) == IF x + y > U64Max THEN None ELSE x + y
checked_sub(x, y) == IF x < y THEN None ELSE x - y
\* `+ 1` and `+= 1` on a u64 (release build: wrapping).
wrapping_add(x, y) == (x + y) % (U64Max + 1)
max(a, b) == IF a >= b THEN a ELSE b

\* struct Kitty
Kitty(id, dna, price, gen) == [id |-> id, dna |-> dna, price |-> price, gen |-> gen]
DefaultKitty == Kitty(ZeroHash, ZeroHash, 0, 0)

VARIABLES
    Kitties,            \* map T::Hash => Kitty
    KittyOwner,         \* map T::Hash => Option<T::AccountId>
    AllKittiesArray,    \* map u64 => T::Hash
    AllKittiesCount,    \* u64
    AllKittiesIndex,    \* map T::Hash => u64
    OwnedKittiesArray,  \* map (T::AccountId, u64) => T::Hash
    OwnedKittiesCount,  \* map T::AccountId => u64
    OwnedKittiesIndex,  \* map T::Hash => u64
    Nonce,              \* u64
    FreeBalance,        \* the balances module's free balance of each account
    Events,             \* the events deposited by the last call
    last                \* the last call: its name, arguments and result

registry == <<Kitties, KittyOwner, AllKittiesArray, AllKittiesCount, AllKittiesIndex,
              OwnedKittiesArray, OwnedKittiesCount, OwnedKittiesIndex, Nonce>>
kitties_vars == <<Kitties, KittyOwner, AllKittiesArray, AllKittiesCount, AllKittiesIndex,
                  OwnedKittiesArray, OwnedKittiesCount, OwnedKittiesIndex, Nonce,
                  FreeBalance, Events, last>>

\* The repository's two other programs, each with a specification of its own
\* further down: the ERC20 contract (collect-ink/src/lib.rs) and the Groups
\* runtime module (groups/runtime/src/groups.rs). In the specifications of
\* the kitties module they stay as declared here, not deployed and not built.
VARIABLES
    total_supply,       \* Erc20: storage::Value<Balance>
    balances,           \* Erc20: storage::HashMap<AccountId, Balance>
    emitted_events,     \* the Transfer events emitted so far
    true_transfers,     \* the number of transfer calls that returned true
    erc20_last,         \* the last call of the contract: name, arguments, result
    overflow_checks     \* whether the build panics on arithmetic overflow

VARIABLES
    GroupsModule,       \* the storage items of the Groups module, as one record,
                        \* with the events deposited by the last call
    groups_last         \* the last call of the module: name, arguments, result

erc20_vars == <<total_supply, balances, emitted_events, true_transfers, erc20_last,
                overflow_checks>>
groups_vars == <<GroupsModule, groups_last>>

vars == <<kitties_vars, erc20_vars, groups_vars>>

Erc20NotDeployed ==
    /\ total_supply = 0
    /\ balances = EmptyMap
    /\ emitted_events = << >>
    /\ true_transfers = 0
    /\ erc20_last = [op |-> "none"]
    /\ overflow_checks = FALSE

GroupsNotBuilt ==
    /\ GroupsModule = [built |-> FALSE]
    /\ groups_last = [op |-> "none"]

\* The storage as one record, the argument and result of the operators below.
Store == [Kitties |-> Kitties, KittyOwner |-> KittyOwner,
          AllKittiesArray |-> AllKittiesArray, AllKittiesCount |-> AllKittiesCount,
          AllKittiesIndex |-> AllKittiesIndex,
          OwnedKittiesArray |-> OwnedKittiesArray, OwnedKittiesCount |-> OwnedKittiesCount,
          OwnedKittiesIndex |-> OwnedKittiesIndex,
          Nonce |-> Nonce, FreeBalance |-> FreeBalance, Events |-> << >>]

EmptyStore == [Kitties |-> EmptyMap, KittyOwner |-> EmptyMap,
               AllKittiesArray |-> EmptyMap, AllKittiesCount |-> 0,
               AllKittiesIndex |-> EmptyMap,
               OwnedKittiesArray |-> EmptyMap, OwnedKittiesCount |-> EmptyMap,
               OwnedKittiesIndex |-> EmptyMap,
               Nonce |-> 0, FreeBalance |-> [a \in Accounts |-> InitialBalance],
               Events |-> << >>]

\* The getters decl_storage generates.
kitty(s, id) == Get(s.Kitties, id, DefaultKitty)
owner_of(s, id) == Get(s.KittyOwner, id, NoAccount)
owned_kitty_count(s, a) == Get(s.OwnedKittiesCount, a, 0)

Ok(s) == [res |-> "Ok", st |-> s]
Err(s, msg) == [res |-> msg, st |-> s]
deposit_event(s, e) == [s EXCEPT !.Events = Append(@, e)]

\* mint with the record written before the identifier check.
mint_write_first(s, to, kitty_id, new_kitty) ==
    LET owned_count == owned_kitty_count(s, to)
        new_owned_kitty_count == checked_add(owned_count, 1)
        all_kitties_count == s.AllKittiesCount
        new_all_kitties_count == checked_add(all_kitties_count, 1)
        s1 == [s EXCEPT !.Kitties = Insert(@, kitty_id, new_kitty)]
    IN  IF new_owned_kitty_count = None THEN Err(s, "Overflow adding a new kitty")
        ELSE IF new_all_kitties_count = None THEN Err(s, "Overflow adding a new kitty")
        ELSE IF Exists(s.KittyOwner, kitty_id) THEN Err(s1, "Kitty already exists")
        ELSE Ok([s1 EXCEPT
                !.KittyOwner = Insert(@, kitty_id, to),
                !.AllKittiesArray = Insert(@, all_kitties_count, kitty_id),
                !.AllKittiesCount = new_all_kitties_count,
                !.AllKittiesIndex = Insert(@, kitty_id, all_kitties_count),
                !.OwnedKittiesArray = Insert(@, <<to, owned_count>>, kitty_id),
                !.OwnedKittiesCount = Insert(@, to, new_owned_kitty_count),
                !.OwnedKittiesIndex = Insert(@, kitty_id, owned_count)])

\* mint without the identifier check.
mint_no_exists_check(s, to, kitty_id, new_kitty) ==
    LET owned_count == owned_kitty_count(s, to)
        new_owned_kitty_count == checked_add(owned_count, 1)
        all_kitties_count == s.AllKittiesCount
        new_all_kitties_count == checked_add(all_kitties_count, 1)
    IN  IF new_owned_kitty_count = None THEN Err(s, "Overflow adding a new kitty")
        ELSE IF new_all_kitties_count = None THEN Err(s, "Overflow adding a new kitty")
        ELSE Ok([s EXCEPT
                !.Kitties = Insert(@, kitty_id, new_kitty),
                !.KittyOwner = Insert(@, kitty_id, to),
                !.AllKittiesArray = Insert(@, all_kitties_count, kitty_id),
                !.AllKittiesCount = new_all_kitties_count,
                !.AllKittiesIndex = Insert(@, kitty_id, all_kitties_count),
                !.OwnedKittiesArray = Insert(@, <<to, owned_count>>, kitty_id),
                !.OwnedKittiesCount = Insert(@, to, new_owned_kitty_count),
                !.OwnedKittiesIndex = Insert(@, kitty_id, owned_count)])

\* mint that leaves out the inverse entry of the global index.
mint_no_global_index(s, to, kitty_id, new_kitty) ==
    LET owned_count == owned_kitty_count(s, to)
        new_owned_kitty_count == checked_add(owned_count, 1)
        all_kitties_count == s.AllKittiesCount
        new_all_kitties_count == checked_add(all_kitties_count, 1)
    IN  IF new_owned_kitty_count = None THEN Err(s, "Overflow adding a new kitty")
        ELSE IF new_all_kitties_count = None THEN Err(s, "Overflow adding a new kitty")
        ELSE IF Exists(s.KittyOwner, kitty_id) THEN Err(s, "Kitty already exists")
        ELSE Ok([s EXCEPT
                !.Kitties = Insert(@, kitty_id, new_kitty),
                !.KittyOwner = Insert(@, kitty_id, to),
                !.AllKittiesArray = Insert(@, all_kitties_count, kitty_id),
                !.AllKittiesCount = new_all_kitties_count,
                !.OwnedKittiesArray = Insert(@, <<to, owned_count>>, kitty_id),
                !.OwnedKittiesCount = Insert(@, to, new_owned_kitty_count),
                !.OwnedKittiesIndex = Insert(@, kitty_id, owned_count)])

\* mint storing the new token at the incremented count, one past the end of
\* both indices.
mint_one_based(s, to, kitty_id, new_kitty) ==
    LET owned_count == owned_kitty_count(s, to)
        new_owned_kitty_count == checked_add(owned_count, 1)
        all_kitties_count == s.AllKittiesCount
        new_all_kitties_count == checked_add(all_kitties_count, 1)
    IN  IF new_owned_kitty_count = None THEN Err(s, "Overflow adding a new kitty")
        ELSE IF new_all_kitties_count = None THEN Err(s, "Overflow adding a new kitty")
        ELSE IF Exists(s.KittyOwner, kitty_id) THEN Err(s, "Kitty already exists")
        ELSE Ok([s EXCEPT
                !.Kitties = Insert(@, kitty_id, new_kitty),
                !.KittyOwner = Insert(@, kitty_id, to),
                !.AllKittiesArray = Insert(@, new_all_kitties_count, kitty_id),
                !.AllKittiesCount = new_all_kitties_count,
                !.AllKittiesIndex = Insert(@, kitty_id, new_all_kitties_count),
                !.OwnedKittiesArray = Insert(@, <<to, new_owned_kitty_count>>, kitty_id),
                !.OwnedKittiesCount = Insert(@, to, new_owned_kitty_count),
                !.OwnedKittiesIndex = Insert(@, kitty_id, new_owned_kitty_count)])

\* ------------------------------------------------------------- mint
mint(s, to, kitty_id, new_kitty) ==
    LET owned_count == owned_kitty_count(s, to)
        new_owned_kitty_count == checked_add(owned_count, 1)
        all_kitties_count == s.AllKittiesCount
        new_all_kitties_count == checked_add(all_kitties_count, 1)
    IN  IF new_owned_kitty_count = None THEN Err(s, "Overflow adding a new kitty")
        ELSE IF new_all_kitties_count = None THEN Err(s, "Overflow adding a new kitty")
        ELSE IF Exists(s.KittyOwner, kitty_id) THEN Err(s, "Kitty already exists")
        ELSE Ok([s EXCEPT
                !.Kitties = Insert(@, kitty_id, new_kitty),
                !.KittyOwner = Insert(@, kitty_id, to),
                !.AllKittiesArray = Insert(@, all_kitties_count, kitty_id),
                !.AllKittiesCount = new_all_kitties_count,
                !.AllKittiesIndex = Insert(@, kitty_id, all_kitties_count),
                !.OwnedKittiesArray = Insert(@, <<to, owned_count>>, kitty_id),
                !.OwnedKittiesCount = Insert(@, to, new_owned_kitty_count),
                !.OwnedKittiesIndex = Insert(@, kitty_id, owned_count)])

\* ------------------------------------------------------------- transfer_from
\* transfer_from's swap step left out: the last token of `from` is not moved
\* into the position of the token that leaves.
swap_last_skipped(s, from, kitty_id, new_owned_kitty_count_from) == s

\* The swap step of transfer_from (lines 300-305).
swap_last(s, from, kitty_id, new_owned_kitty_count_from) ==
    LET kitty_index == Get(s.OwnedKittiesIndex, kitty_id, 0)
        last_kitty_id == Get(s.OwnedKittiesArray, <<from, new_owned_kitty_count_from>>, ZeroHash)
    IN  IF kitty_index # new_owned_kitty_count_from
        THEN [s EXCEPT
                !.OwnedKittiesArray = Insert(@, <<from, kitty_index>>, last_kitty_id),
                !.OwnedKittiesIndex = Insert(@, last_kitty_id, kitty_index)]
        ELSE s

\* transfer_from with the Transferred event deposited on entry, before the
\* checks, so that a refused transfer has emitted it too.
transfer_from_emit_first(s, from, to, kitty_id) ==
    LET owner == owner_of(s, kitty_id)
        owned_kitty_count_from == owned_kitty_count(s, from)
        owned_kitty_count_to == owned_kitty_count(s, to)
        new_owned_kitty_count_to == checked_add(owned_kitty_count_to, 1)
        new_owned_kitty_count_from == checked_sub(owned_kitty_count_from, 1)
    IN  IF ~Exists(s.KittyOwner, kitty_id) THEN Err(deposit_event(s, <<"Transferred", from, to, kitty_id>>),
                 "No owner for this kitty")
        ELSE IF owner # from THEN Err(deposit_event(s, <<"Transferred", from, to, kitty_id>>),
                 "From account is not the owner")
        ELSE IF new_owned_kitty_count_to = None
            THEN Err(deposit_event(s, <<"Transferred", from, to, kitty_id>>),
                     "Overflow adding a new kitty to account balance")
        ELSE IF new_owned_kitty_count_from = None
            THEN Err(deposit_event(s, <<"Transferred", from, to, kitty_id>>),
                     "Overflow subtracing a new kitty to account balance")
        ELSE LET s1 == swap_last(s, from, kitty_id, new_owned_kitty_count_from)
                 s2 == [s1 EXCEPT !.KittyOwner = Insert(@, kitty_id, to)]
                 s3 == [s2 EXCEPT !.OwnedKittiesIndex = Insert(@, kitty_id, owned_kitty_count_to)]
                 s4 == [s3 EXCEPT !.OwnedKittiesArray =
                                      Remove(@, <<from, new_owned_kitty_count_from>>)]
                 s5 == [s4 EXCEPT !.OwnedKittiesArray =
                                      Insert(@, <<to, owned_kitty_count_to>>, kitty_id)]
                 s6 == [s5 EXCEPT !.OwnedKittiesCount = Insert(@, from, new_owned_kitty_count_from)]
                 s7 == [s6 EXCEPT !.OwnedKittiesCount = Insert(@, to, new_owned_kitty_count_to)]
             IN  Ok(deposit_event(s7, <<"Transferred", from, to, kitty_id>>))

\* transfer_from with the two count writes in the other order: the count of
\* `to` first, the count of `from` last.
transfer_from_count_from_last(s, from, to, kitty_id) ==
    LET owner == owner_of(s, kitty_id)
        owned_kitty_count_from == owned_kitty_count(s, from)
        owned_kitty_count_to == owned_kitty_count(s, to)
        new_owned_kitty_count_to == checked_add(owned_kitty_count_to, 1)
        new_owned_kitty_count_from == checked_sub(owned_kitty_count_from, 1)
    IN  IF ~Exists(s.KittyOwner, kitty_id) THEN Err(s, "No owner for this kitty")
        ELSE IF owner # from THEN Err(s, "From account is not the owner")
        ELSE IF new_owned_kitty_count_to = None
            THEN Err(s, "Overflow adding a new kitty to account balance")
        ELSE IF new_owned_kitty_count_from = None
            THEN Err(s, "Overflow subtracing a new kitty to account balance")
        ELSE LET s1 == swap_last(s, from, kitty_id, new_owned_kitty_count_from)
                 s2 == [s1 EXCEPT !.KittyOwner = Insert(@, kitty_id, to)]
                 s3 == [s2 EXCEPT !.OwnedKittiesIndex = Insert(@, kitty_id, owned_kitty_count_to)]
                 s4 == [s3 EXCEPT !.OwnedKittiesArray =
                                      Remove(@, <<from, new_owned_kitty_count_from>>)]
                 s5 == [s4 EXCEPT !.OwnedKittiesArray =
                                      Insert(@, <<to, owned_kitty_count_to>>, kitty_id)]
                 s6 == [s5 EXCEPT !.OwnedKittiesCount = Insert(@, to, new_owned_kitty_count_to)]
                 s7 == [s6 EXCEPT !.OwnedKittiesCount = Insert(@, from, new_owned_kitty_count_from)]
             IN  Ok(deposit_event(s7, <<"Transferred", from, to, kitty_id>>))

transfer_from(s, from, to, kitty_id) ==
    LET owner == owner_of(s, kitty_id)
        owned_kitty_count_from == owned_kitty_count(s, from)
        owned_kitty_count_to == owned_kitty_count(s, to)
        new_owned_kitty_count_to == checked_add(owned_kitty_count_to, 1)
        new_owned_kitty_count_from == checked_sub(owned_kitty_count_from, 1)
    IN  IF ~Exists(s.KittyOwner, kitty_id) THEN Err(s, "No owner for this kitty")
        ELSE IF owner # from THEN Err(s, "From account is not the owner")
        ELSE IF new_owned_kitty_count_to = None
            THEN Err(s, "Overflow adding a new kitty to account balance")
        ELSE IF new_owned_kitty_count_from = None
            THEN Err(s, "Overflow subtracing a new kitty to account balance")
        ELSE LET s1 == swap_last(s, from, kitty_id, new_owned_kitty_count_from)
                 s2 == [s1 EXCEPT !.KittyOwner = Insert(@, kitty_id, to)]
                 s3 == [s2 EXCEPT !.OwnedKittiesIndex = Insert(@, kitty_id, owned_kitty_count_to)]
                 s4 == [s3 EXCEPT !.OwnedKittiesArray =
                                      Remove(@, <<from, new_owned_kitty_count_from>>)]
                 s5 == [s4 EXCEPT !.OwnedKittiesArray =
                                      Insert(@, <<to, owned_kitty_count_to>>, kitty_id)]
                 s6 == [s5 EXCEPT !.OwnedKittiesCount = Insert(@, from, new_owned_kitty_count_from)]
                 s7 == [s6 EXCEPT !.OwnedKittiesCount = Insert(@, to, new_owned_kitty_count_to)]
             IN  Ok(deposit_event(s7, <<"Transferred", from, to, kitty_id>>))

\* ------------------------------------------------------------- dispatchable calls
\* create_kitty with the nonce incremented before mint.
create_kitty_nonce_first(s, sender, random_hash) ==
    LET new_kitty == Kitty(random_hash, random_hash, 0, 0)
        s1 == [s EXCEPT !.Nonce = wrapping_add(@, 1)]
    IN  mint(s1, sender, random_hash, new_kitty)

create_kitty(s, sender, random_hash) ==
    LET new_kitty == Kitty(random_hash, random_hash, 0, 0)
        minted == mint(s, sender, random_hash, new_kitty)
    IN  IF minted.res # "Ok" THEN minted
        ELSE Ok([minted.st EXCEPT !.Nonce = wrapping_add(@, 1)])

\* set_price storing a fresh kitty record, of generation 0, with the new price.
set_price_new_kitty(s, sender, kitty_id, new_price) ==
    IF ~Exists(s.Kitties, kitty_id) THEN Err(s, "This cat does not exist")
    ELSE IF ~Exists(s.KittyOwner, kitty_id) THEN Err(s, "No owner for this kitty")
    ELSE IF owner_of(s, kitty_id) # sender THEN Err(s, "You do not own this cat")
    ELSE LET updated == Kitty(kitty_id, kitty(s, kitty_id).dna, new_price, 0)
             s1 == [s EXCEPT !.Kitties = Insert(@, kitty_id, updated)]
         IN  Ok(deposit_event(s1, <<"PriceSet", sender, kitty_id, new_price>>))

\* set_price without the ownership check.
set_price_by_anyone(s, sender, kitty_id, new_price) ==
    IF ~Exists(s.Kitties, kitty_id) THEN Err(s, "This cat does not exist")
    ELSE IF ~Exists(s.KittyOwner, kitty_id) THEN Err(s, "No owner for this kitty")
    ELSE LET updated == [kitty(s, kitty_id) EXCEPT !.price = new_price]
             s1 == [s EXCEPT !.Kitties = Insert(@, kitty_id, updated)]
         IN  Ok(deposit_event(s1, <<"PriceSet", sender, kitty_id, new_price>>))

set_price(s, sender, kitty_id, new_price) ==
    IF ~Exists(s.Kitties, kitty_id) THEN Err(s, "This cat does not exist")
    ELSE IF ~Exists(s.KittyOwner, kitty_id) THEN Err(s, "No owner for this kitty")
    ELSE IF owner_of(s, kitty_id) # sender THEN Err(s, "You do not own this cat")
    ELSE LET updated == [kitty(s, kitty_id) EXCEPT !.price = new_price]
             s1 == [s EXCEPT !.Kitties = Insert(@, kitty_id, updated)]
         IN  Ok(deposit_event(s1, <<"PriceSet", sender, kitty_id, new_price>>))

\* transfer without the check that the sender is the owner.
transfer_any_sender(s, sender, to, kitty_id) ==
    IF ~Exists(s.KittyOwner, kitty_id) THEN Err(s, "No owner for this kitty")
    ELSE transfer_from(s, owner_of(s, kitty_id), to, kitty_id)

\* transfer that takes the token off sale as buy_kitty does.
transfer_price_reset(s, sender, to, kitty_id) ==
    IF ~Exists(s.KittyOwner, kitty_id) THEN Err(s, "No owner for this kitty")
    ELSE IF owner_of(s, kitty_id) # sender THEN Err(s, "You do not own this kitty")
    ELSE LET moved == transfer_from(s, sender, to, kitty_id)
         IN  IF moved.res # "Ok" THEN moved
             ELSE Ok([moved.st EXCEPT !.Kitties =
                        Insert(@, kitty_id, [kitty(s, kitty_id) EXCEPT !.price = 0])])

transfer(s, sender, to, kitty_id) ==
    IF ~Exists(s.KittyOwner, kitty_id) THEN Err(s, "No owner for this kitty")
    ELSE IF owner_of(s, kitty_id) # sender THEN Err(s, "You do not own this kitty")
    ELSE transfer_from(s, sender, to, kitty_id)

\* Currency::transfer of the balances module, with no fees and no existential
\* deposit (the configuration of the module's tests).
currency_transfer(s, transactor, dest, value) ==
    LET from_balance == s.FreeBalance[transactor]
        to_balance == s.FreeBalance[dest]
        new_from_balance == checked_sub(from_balance, value)
        new_to_balance == checked_add(to_balance, value)
    IN  IF new_from_balance = None THEN Err(s, "balance too low to send value")
        ELSE IF new_to_balance = None
            THEN Err(s, "destination balance too high to receive value")
        ELSE IF transactor = dest THEN Ok(s)
        ELSE Ok([s EXCEPT !.FreeBalance = [@ EXCEPT ![transactor] = new_from_balance,
                                                     ![dest] = new_to_balance]])

\* buy_kitty with the price reset before the currency transfer.
buy_kitty_reset_first(s, sender, kitty_id, max_price) ==
    LET owner == owner_of(s, kitty_id)
        bought == kitty(s, kitty_id)
        price == bought.price
    IN  IF ~Exists(s.Kitties, kitty_id) THEN Err(s, "This cat does not exist")
        ELSE IF ~Exists(s.KittyOwner, kitty_id) THEN Err(s, "No owner for this kitty")
        ELSE IF owner = sender THEN Err(s, "Cat already owned")
        ELSE IF price = 0 THEN Err(s, "The cat you want to buy is not for sale")
        ELSE IF ~(price <= max_price)
            THEN Err(s, "The cat you want to buy costs more than your max price")
        ELSE LET s1 == [s EXCEPT !.Kitties =
                            Insert(@, kitty_id, [bought EXCEPT !.price = 0])]
                 paid == currency_transfer(s1, sender, owner, price)
             IN  IF paid.res # "Ok" THEN paid
                 ELSE LET moved == transfer_from(paid.st, owner, sender, kitty_id)
                      IN  IF moved.res # "Ok" THEN [res |-> "panic", st |-> moved.st]
                          ELSE Ok(deposit_event(moved.st,
                                    <<"Bought", sender, owner, kitty_id, price>>))

\* `.expect(..)` on the result of transfer_from panics on Err: the call does
\* not return, and the storage holds what was written up to the panic.
\* buy_kitty checking that the kitty is for sale before checking the owner.
buy_kitty_sale_check_first(s, sender, kitty_id, max_price) ==
    LET owner == owner_of(s, kitty_id)
        bought == kitty(s, kitty_id)
        price == bought.price
    IN  IF ~Exists(s.Kitties, kitty_id) THEN Err(s, "This cat does not exist")
        ELSE IF ~Exists(s.KittyOwner, kitty_id) THEN Err(s, "No owner for this kitty")
        ELSE IF price = 0 THEN Err(s, "The cat you want to buy is not for sale")
        ELSE IF owner = sender THEN Err(s, "Cat already owned")
        ELSE IF ~(price <= max_price)
            THEN Err(s, "The cat you want to buy costs more than your max price")
        ELSE LET paid == currency_transfer(s, sender, owner, price)
             IN  IF paid.res # "Ok" THEN paid
                 ELSE LET moved == transfer_from(paid.st, owner, sender, kitty_id)
                      IN  IF moved.res # "Ok" THEN [res |-> "panic", st |-> moved.st]
                          ELSE LET s1 == [moved.st EXCEPT !.Kitties =
                                            Insert(@, kitty_id, [bought EXCEPT !.price = 0])]
                               IN  Ok(deposit_event(s1,
                                        <<"Bought", sender, owner, kitty_id, price>>))

\* buy_kitty paying the offered max_price instead of the kitty's price.
buy_kitty_pays_offer(s, sender, kitty_id, max_price) ==
    LET owner == owner_of(s, kitty_id)
        bought == kitty(s, kitty_id)
        price == bought.price
    IN  IF ~Exists(s.Kitties, kitty_id) THEN Err(s, "This cat does not exist")
        ELSE IF ~Exists(s.KittyOwner, kitty_id) THEN Err(s, "No owner for this kitty")
        ELSE IF owner = sender THEN Err(s, "Cat already owned")
        ELSE IF price = 0 THEN Err(s, "The cat you want to buy is not for sale")
        ELSE IF ~(price <= max_price)
            THEN Err(s, "The cat you want to buy costs more than your max price")
        ELSE LET paid == currency_transfer(s, sender, owner, max_price)
             IN  IF paid.res # "Ok" THEN paid
                 ELSE LET moved == transfer_from(paid.st, owner, sender, kitty_id)
                      IN  IF moved.res # "Ok" THEN [res |-> "panic", st |-> moved.st]
                          ELSE LET s1 == [moved.st EXCEPT !.Kitties =
                                            Insert(@, kitty_id, [bought EXCEPT !.price = 0])]
                               IN  Ok(deposit_event(s1,
                                        <<"Bought", sender, owner, kitty_id, price>>))

buy_kitty(s, sender, kitty_id, max_price) ==
    LET owner == owner_of(s, kitty_id)
        bought == kitty(s, kitty_id)
        price == bought.price
    IN  IF ~Exists(s.Kitties, kitty_id) THEN Err(s, "This cat does not exist")
        ELSE IF ~Exists(s.KittyOwner, kitty_id) THEN Err(s, "No owner for this kitty")
        ELSE IF owner = sender THEN Err(s, "Cat already owned")
        ELSE IF price = 0 THEN Err(s, "The cat you want to buy is not for sale")
        ELSE IF ~(price <= max_price)
            THEN Err(s, "The cat you want to buy costs more than your max price")
        ELSE LET paid == currency_transfer(s, sender, owner, price)
             IN  IF paid.res # "Ok" THEN paid
                 ELSE LET moved == transfer_from(paid.st, owner, sender, kitty_id)
                      IN  IF moved.res # "Ok" THEN [res |-> "panic", st |-> moved.st]
                          ELSE LET s1 == [moved.st EXCEPT !.Kitties =
                                            Insert(@, kitty_id, [bought EXCEPT !.price = 0])]
                               IN  Ok(deposit_event(s1,
                                        <<"Bought", sender, owner, kitty_id, price>>))

\* A T::Hash is HashBytes bytes, each in 0..ByteBase-1 (scaled down from 32
\* bytes of 0..255); byte i of hash h:
ByteBase == 3
HashBytes == 2
RECURSIVE Pow(_, _)
Pow(b, n) == IF n = 0 THEN 1 ELSE b * Pow(b, n - 1)
Byte(h, i) == (h \div Pow(ByteBase, i)) % ByteBase
\* Every value of T::Hash; Hashes is the part of it offered to the calls of
\* Spec.
AllHashes == 0..(Pow(ByteBase, HashBytes) - 1)

\* Gene splicing that looks at the parity of the whole random hash rather
\* than of each of its bytes.
splice_by_hash_parity(dna_1, dna_2, random_hash, n) ==
    IF random_hash % 2 = 0 THEN dna_2 % Pow(ByteBase, n) ELSE dna_1 % Pow(ByteBase, n)

\* The gene splicing loop of breed_kitty (lines 210-215), bytes 0..n-1.
RECURSIVE splice(_, _, _, _)
splice(dna_1, dna_2, random_hash, n) ==
    IF n = 0 THEN 0
    ELSE LET i == n - 1
             element == IF Byte(random_hash, i) % 2 = 0 THEN Byte(dna_2, i) ELSE Byte(dna_1, i)
         IN  element * Pow(ByteBase, i) + splice(dna_1, dna_2, random_hash, i)

\* breed_kitty checking the existence of the first parent only.
breed_kitty_first_parent_only(s, sender, kitty_id_1, kitty_id_2, random_hash) ==
    IF ~Exists(s.Kitties, kitty_id_1) THEN Err(s, "Kitty 1 does not exist")
    ELSE LET kitty_1 == kitty(s, kitty_id_1)
             kitty_2 == kitty(s, kitty_id_2)
             final_dna == splice(kitty_1.dna, kitty_2.dna, random_hash, HashBytes)
             new_kitty == Kitty(random_hash, final_dna, 0,
                                wrapping_add(max(kitty_1.gen, kitty_2.gen), 1))
             minted == mint(s, sender, random_hash, new_kitty)
         IN  IF minted.res # "Ok" THEN minted
             ELSE Ok([minted.st EXCEPT !.Nonce = wrapping_add(@, 1)])

\* breed_kitty taking the child's generation from the first parent alone.
breed_kitty_gen_of_first(s, sender, kitty_id_1, kitty_id_2, random_hash) ==
    IF ~Exists(s.Kitties, kitty_id_1) THEN Err(s, "Kitty 1 does not exist")
    ELSE IF ~Exists(s.Kitties, kitty_id_2) THEN Err(s, "Kitty 2 does not exist")
    ELSE LET kitty_1 == kitty(s, kitty_id_1)
             kitty_2 == kitty(s, kitty_id_2)
             final_dna == splice(kitty_1.dna, kitty_2.dna, random_hash, HashBytes)
             new_kitty == Kitty(random_hash, final_dna, 0,
                                wrapping_add(kitty_1.gen, 1))
             minted == mint(s, sender, random_hash, new_kitty)
         IN  IF minted.res # "Ok" THEN minted
             ELSE Ok([minted.st EXCEPT !.Nonce = wrapping_add(@, 1)])

\* breed_kitty open only to the owner of the first parent.
breed_kitty_by_owner_only(s, sender, kitty_id_1, kitty_id_2, random_hash) ==
    IF ~Exists(s.Kitties, kitty_id_1) THEN Err(s, "Kitty 1 does not exist")
    ELSE IF ~Exists(s.Kitties, kitty_id_2) THEN Err(s, "Kitty 2 does not exist")
    ELSE IF owner_of(s, kitty_id_1) # sender THEN Err(s, "You do not own this cat")
    ELSE LET kitty_1 == kitty(s, kitty_id_1)
             kitty_2 == kitty(s, kitty_id_2)
             final_dna == splice(kitty_1.dna, kitty_2.dna, random_hash, HashBytes)
             new_kitty == Kitty(random_hash, final_dna, 0,
                                wrapping_add(max(kitty_1.gen, kitty_2.gen), 1))
             minted == mint(s, sender, random_hash, new_kitty)
         IN  IF minted.res # "Ok" THEN minted
             ELSE Ok([minted.st EXCEPT !.Nonce = wrapping_add(@, 1)])

breed_kitty(s, sender, kitty_id_1, kitty_id_2, random_hash) ==
    IF ~Exists(s.Kitties, kitty_id_1) THEN Err(s, "Kitty 1 does not exist")
    ELSE IF ~Exists(s.Kitties, kitty_id_2) THEN Err(s, "Kitty 2 does not exist")
    ELSE LET kitty_1 == kitty(s, kitty_id_1)
             kitty_2 == kitty(s, kitty_id_2)
             final_dna == splice(kitty_1.dna, kitty_2.dna, random_hash, HashBytes)
             new_kitty == Kitty(random_hash, final_dna, 0,
                                wrapping_add(max(kitty_1.gen, kitty_2.gen), 1))
             minted == mint(s, sender, random_hash, new_kitty)
         IN  IF minted.res # "Ok" THEN minted
             ELSE Ok([minted.st EXCEPT !.Nonce = wrapping_add(@, 1)])

\* ------------------------------------------------------------- genesis
\* add_extra_genesis: mints config.kitties in order, ignoring mint's result.
GenesisEntries == Accounts \X Hashes \X Prices
GenesisConfigs == UNION {[1..n -> GenesisEntries] : n \in 0..MaxGenesis}

RECURSIVE build(_, _)
build(s, config) ==
    IF config = << >> THEN s
    ELSE LET acct == Head(config)[1]
             hash == Head(config)[2]
             balance == Head(config)[3]
             k == Kitty(hash, hash, balance, 0)
         IN  build(mint(s, acct, hash, k).st, Tail(config))

\* ------------------------------------------------------------- the state machine
Call(op, sender, to, kitty_id, kitty_id_2, price, random_hash) ==
    [op |-> op, sender |-> sender, to |-> to, kitty_id |-> kitty_id,
     kitty_id_2 |-> kitty_id_2, price |-> price, random_hash |-> random_hash,
     res |-> "Ok"]

Commit(s) ==
    /\ Kitties' = s.Kitties
    /\ KittyOwner' = s.KittyOwner
    /\ AllKittiesArray' = s.AllKittiesArray
    /\ AllKittiesCount' = s.AllKittiesCount
    /\ AllKittiesIndex' = s.AllKittiesIndex
    /\ OwnedKittiesArray' = s.OwnedKittiesArray
    /\ OwnedKittiesCount' = s.OwnedKittiesCount
    /\ OwnedKittiesIndex' = s.OwnedKittiesIndex
    /\ Nonce' = s.Nonce
    /\ FreeBalance' = s.FreeBalance
    /\ Events' = s.Events

\* What `last` keeps of a call: its name and result, and the arguments of a
\* call that returned Ok.
NoCall == Call("genesis", NoAccount, NoAccount, None, None, None, None)

\* One call: its result's storage is committed. After a panic the runtime has
\* stopped and takes no further call.
Dispatch(call, result) ==
    /\ last.res # "panic"
    /\ Commit(result.st)
    /\ last' = IF result.res = "Ok" THEN call
               ELSE [NoCall EXCEPT !.op = call.op, !.res = result.res]
    /\ UNCHANGED <<erc20_vars, groups_vars>>

Init ==
    \E config \in GenesisConfigs :
        LET s == build(EmptyStore, config)
        IN  /\ Kitties = s.Kitties
            /\ KittyOwner = s.KittyOwner
            /\ AllKittiesArray = s.AllKittiesArray
            /\ AllKittiesCount = s.AllKittiesCount
            /\ AllKittiesIndex = s.AllKittiesIndex
            /\ OwnedKittiesArray = s.OwnedKittiesArray
            /\ OwnedKittiesCount = s.OwnedKittiesCount
            /\ OwnedKittiesIndex = s.OwnedKittiesIndex
            /\ Nonce = s.Nonce
            /\ FreeBalance = s.FreeBalance
            /\ Events = s.Events
            /\ last = NoCall
            /\ Erc20NotDeployed
            /\ GroupsNotBuilt

CreateKitty ==
    \E sender \in Accounts, random_hash \in Hashes :
        Dispatch(Call("create_kitty", sender, NoAccount, None, None, None, random_hash),
                 create_kitty(Store, sender, random_hash))

SetPrice ==
    \E sender \in Accounts, kitty_id \in Hashes, new_price \in Prices :
        Dispatch(Call("set_price", sender, NoAccount, kitty_id, None, new_price, None),
                 set_price(Store, sender, kitty_id, new_price))

Transfer ==
    \E sender \in Accounts, to \in Accounts, kitty_id \in Hashes :
        Dispatch(Call("transfer", sender, to, kitty_id, None, None, None),
                 transfer(Store, sender, to, kitty_id))

BuyKitty ==
    \E sender \in Accounts, kitty_id \in Hashes, max_price \in Offers :
        Dispatch(Call("buy_kitty", sender, NoAccount, kitty_id, None, max_price, None),
                 buy_kitty(Store, sender, kitty_id, max_price))

BreedKitty ==
    \E sender \in Accounts, kitty_id_1 \in Hashes, kitty_id_2 \in Hashes, random_hash \in Hashes :
        Dispatch(Call("breed_kitty", sender, NoAccount, kitty_id_1, kitty_id_2, None, random_hash),
                 breed_kitty(Store, sender, kitty_id_1, kitty_id_2, random_hash))

Next == CreateKitty \/ SetPrice \/ Transfer \/ BuyKitty \/ BreedKitty

Spec == Init /\ [][Next]_vars

\* ------------------------------------------------------------- breeding
\* breed_kitty over the whole hash space: the registry starts with the
\* kitties of two create_kitty calls of one account, with any two hashes
\* (one kitty when the hashes are equal), and every call is a breed_kitty
\* with any caller, any two existing parents and any random hash (a call
\* naming an absent parent is among the calls of Spec).
InitBreed ==
    \E sender \in Accounts, hash_1 \in AllHashes, hash_2 \in AllHashes :
        LET s == create_kitty(create_kitty(EmptyStore, sender, hash_1).st, sender, hash_2).st
        IN  /\ Kitties = s.Kitties
            /\ KittyOwner = s.KittyOwner
            /\ AllKittiesArray = s.AllKittiesArray
            /\ AllKittiesCount = s.AllKittiesCount
            /\ AllKittiesIndex = s.AllKittiesIndex
            /\ OwnedKittiesArray = s.OwnedKittiesArray
            /\ OwnedKittiesCount = s.OwnedKittiesCount
            /\ OwnedKittiesIndex = s.OwnedKittiesIndex
            /\ Nonce = s.Nonce
            /\ FreeBalance = s.FreeBalance
            /\ Events = s.Events
            /\ last = Call("create_kitty", sender, NoAccount, None, None, None, hash_1)
            /\ Erc20NotDeployed
            /\ GroupsNotBuilt

BreedAnyHash ==
    \E sender \in Accounts, kitty_id_1 \in DOMAIN Kitties, kitty_id_2 \in DOMAIN Kitties,
       random_hash \in AllHashes :
        Dispatch(Call("breed_kitty", sender, NoAccount, kitty_id_1, kitty_id_2, None, random_hash),
                 breed_kitty(Store, sender, kitty_id_1, kitty_id_2, random_hash))

NextBreed == BreedAnyHash

SpecBreed == InitBreed /\ [][NextBreed]_vars

\* ------------------------------------------------------------- observations
\* The registry part of a storage record.
Reg(s) == <<s.Kitties, s.KittyOwner, s.AllKittiesArray, s.AllKittiesCount, s.AllKittiesIndex,
            s.OwnedKittiesArray, s.OwnedKittiesCount, s.OwnedKittiesIndex, s.Nonce>>

Existing == DOMAIN KittyOwner
OwnedBy(o) == {t \in Existing : KittyOwner[t] = o}
\* The positions of owner o's forward map that hold a value, and those holding t.
OwnerPositions(o) == {i \in 0..U64Max : Exists(OwnedKittiesArray, <<o, i>>)}
OwnerPositionsOf(o, t) == {i \in OwnerPositions(o) : OwnedKittiesArray[<<o, i>>] = t}
GlobalPositionsOf(t) == {i \in DOMAIN AllKittiesArray : AllKittiesArray[i] = t}

\* ------------------------------------------------------------- C1
\* C1: after every operation, for every owner o, OwnedKittiesCount[o] is the
\* number of tokens whose owner is o, positions 0..count[o]-1 of o's forward
\* map are all occupied, and every token's OwnedKittiesIndex is the position
\* under which it is stored in its owner's forward map.
C1_OwnerIndexConsistent ==
    /\ \A o \in Accounts :
        /\ owned_kitty_count(Store, o) = Cardinality(OwnedBy(o))
        /\ \A i \in 0..(owned_kitty_count(Store, o) - 1) : i \in OwnerPositions(o)
    /\ \A t \in Existing :
        Get(OwnedKittiesIndex, t, 0) \in OwnerPositionsOf(KittyOwner[t], t)

\* ------------------------------------------------------------- C2
\* C2: in every reachable state, a token has a record iff it has an owner iff
\* it is stored at exactly one position of the global forward map and at
\* exactly one position of its owner's forward map, and at no position of any
\* other owner's forward map.
C2_ExistsIffIndexedOnce ==
    \A t \in Hashes :
        /\ Exists(Kitties, t) <=> Exists(KittyOwner, t)
        /\ Exists(KittyOwner, t) <=> Cardinality(GlobalPositionsOf(t)) = 1
        /\ Exists(KittyOwner, t) <=>
            \E o \in Accounts :
                /\ owner_of(Store, t) = o
                /\ Cardinality(OwnerPositionsOf(o, t)) = 1
                /\ \A other \in Accounts \ {o} : OwnerPositionsOf(other, t) = {}
        /\ ~Exists(KittyOwner, t) => \A o \in Accounts : OwnerPositionsOf(o, t) = {}

\* ------------------------------------------------------------- C3
\* C3: a call that returns an error leaves the whole registry state (records,
\* owner map, global and per-owner indices, nonce) as it was before the call.
C3_FailedCallWritesNothing ==
    [][last'.res \notin {"Ok", "panic"} => registry' = registry]_vars

\* A transfer failed on the destination's count, after the ownership checks.
C3_Witness ==
    /\ last.op = "transfer"
    /\ last.res = "Overflow adding a new kitty to account balance"

\* ------------------------------------------------------------- C4
\* C4: a transfer of an existing token by an account that is not its owner
\* fails with "You do not own this kitty" and changes nothing, for every
\* destination.
C4_TransferByNonOwnerFails ==
    \A sender \in Accounts, to \in Accounts, kitty_id \in Existing :
        owner_of(Store, kitty_id) # sender =>
            LET r == transfer(Store, sender, to, kitty_id)
            IN  /\ r.res = "You do not own this kitty"
                /\ r.st = Store

C4_Witness ==
    /\ last.op = "transfer"
    /\ last.res = "You do not own this kitty"
    /\ \E t \in Existing : owned_kitty_count(Store, KittyOwner[t]) >= 1

\* ------------------------------------------------------------- C5
\* The kitties create_kitty and breed_kitty hand to mint for identifier h.
MintedKitties(h) ==
    {Kitty(h, dna, 0, gen) : dna \in 0..(Pow(ByteBase, HashBytes) - 1), gen \in 0..U64Max}

C6_BuyFailedPaymentWritesNothing ==
    \A sender \in Accounts, kitty_id \in Existing, max_price \in Prices :
        LET owner == owner_of(Store, kitty_id)
            price == kitty(Store, kitty_id).price
            paid == currency_transfer(Store, sender, owner, price)
            r == buy_kitty(Store, sender, kitty_id, max_price)
        IN  (owner # sender /\ price # 0 /\ price <= max_price /\ paid.res # "Ok") =>
                /\ r.res = paid.res
                /\ r.st = Store

C6_Witness ==
    /\ last.op = "buy_kitty"
    /\ last.res = "balance too low to send value"

\* ------------------------------------------------------------- C7
\* C7: once buy_kitty's checks have passed and the currency transfer has
\* succeeded, transfer_from cannot fail: no call ends with the currency moved
\* and the token still with the seller.
C7_BuyTransferCannotFail ==
    \A sender \in Accounts, kitty_id \in Hashes, max_price \in Prices :
        buy_kitty(Store, sender, kitty_id, max_price).res # "panic"

\* ------------------------------------------------------------- C8
\* The positions of owner o's forward map that hold a value in storage s.
PositionsIn(s, o) == {i \in 0..U64Max : Exists(s.OwnedKittiesArray, <<o, i>>)}

\* C8: after a successful transfer of token t from `from` (count c, t at
\* position p) to another owner `to` (count d): the token that was at from's
\* position c-1 is at position p with inverse entry p (when p # c-1), from's
\* occupied positions are exactly 0..c-2 and its count is c-1, t is at to's
\* position d with inverse entry d, to's count is d+1, and the global count
\* is unchanged.
C8_TransferSwapAndPop ==
    \A from \in Accounts, to \in Accounts, t \in Hashes :
        LET r == transfer(Store, from, to, t)
            s == r.st
            c == owned_kitty_count(Store, from)
            d == owned_kitty_count(Store, to)
        IN  (r.res = "Ok" /\ to # from) =>
                /\ \A p \in OwnerPositionsOf(from, t) :
                        (p # c - 1 /\ Exists(OwnedKittiesArray, <<from, c - 1>>)) =>
                            LET last_token == OwnedKittiesArray[<<from, c - 1>>]
                            IN  /\ Get(s.OwnedKittiesArray, <<from, p>>, None) = last_token
                                /\ Get(s.OwnedKittiesIndex, last_token, None) = p
                /\ PositionsIn(s, from) = 0..(c - 2)
                /\ owned_kitty_count(s, from) = c - 1
                /\ Get(s.OwnedKittiesArray, <<to, d>>, None) = t
                /\ Get(s.OwnedKittiesIndex, t, None) = d
                /\ owned_kitty_count(s, to) = d + 1
                /\ s.AllKittiesCount = AllKittiesCount

\* ------------------------------------------------------------- C9
\* The index operations as the specification words them (section 4.2).
remove_owner(s, owner, token_id) ==
    LET count == owned_kitty_count(s, owner)
        new_count == checked_sub(count, 1)
        removed_position == Get(s.OwnedKittiesIndex, token_id, 0)
        last_token == Get(s.OwnedKittiesArray, <<owner, new_count>>, ZeroHash)
        swapped == IF removed_position # new_count
                   THEN [s EXCEPT
                           !.OwnedKittiesArray = Insert(@, <<owner, removed_position>>, last_token),
                           !.OwnedKittiesIndex = Insert(@, last_token, removed_position)]
                   ELSE s
    IN  IF new_count = None THEN Err(s, "Underflow")
        ELSE Ok([swapped EXCEPT
                    !.OwnedKittiesArray = Remove(@, <<owner, new_count>>),
                    !.OwnedKittiesIndex = Remove(@, token_id),
                    !.OwnedKittiesCount = Insert(@, owner, new_count)])

insert_owner(s, owner, token_id) ==
    LET count == owned_kitty_count(s, owner)
        new_count == checked_add(count, 1)
    IN  IF new_count = None THEN Err(s, "Overflow")
        ELSE Ok([s EXCEPT
                    !.OwnedKittiesArray = Insert(@, <<owner, count>>, token_id),
                    !.OwnedKittiesIndex = Insert(@, token_id, count),
                    !.OwnedKittiesCount = Insert(@, owner, new_count)])

set_owner(s, token_id, owner) == [s EXCEPT !.KittyOwner = Insert(@, token_id, owner)]

\* remove_owner, then insert_owner, then set_owner.
remove_insert_set(s, from, to, token_id) ==
    LET removed == remove_owner(s, from, token_id)
        inserted == insert_owner(removed.st, to, token_id)
    IN  IF removed.res # "Ok" THEN removed
        ELSE IF inserted.res # "Ok" THEN inserted
        ELSE Ok(set_owner(inserted.st, token_id, to))

\* C9: every successful transfer, to = caller included, leaves the registry
\* that remove_owner(caller, token), insert_owner(to, token), set_owner(token,
\* to) applied in sequence leave.
C9_TransferIsRemoveThenInsert ==
    \A sender \in Accounts, to \in Accounts, t \in Hashes :
        LET r == transfer(Store, sender, to, t)
            q == remove_insert_set(Store, sender, to, t)
        IN  r.res = "Ok" => (q.res = "Ok" /\ Reg(r.st) = Reg(q.st))

\* ------------------------------------------------------------- C10
\* The calls that reach identifier generation: every create_kitty, and a
\* breed_kitty whose parents both exist.
GeneratesId(call) ==
    \/ call.op = "create_kitty"
    \/ /\ call.op = "breed_kitty"
       /\ call.res \notin {"Kitty 1 does not exist", "Kitty 2 does not exist"}

C11_CountersChecked ==
    /\ \A to \in Accounts, kitty_id \in Hashes :
           LET r == mint(Store, to, kitty_id, Kitty(kitty_id, kitty_id, 0, 0))
           IN  (owned_kitty_count(Store, to) = U64Max \/ AllKittiesCount = U64Max)
                   => (r.res \notin {"Ok", "panic"} /\ r.st = Store)
    /\ \A sender \in Accounts, random_hash \in Hashes :
           LET r == create_kitty(Store, sender, random_hash)
           IN  Nonce = U64Max => (r.res \notin {"Ok", "panic"} /\ r.st = Store)
    /\ \A sender \in Accounts, kitty_id_1 \in Existing, kitty_id_2 \in Existing,
          random_hash \in Hashes :
           LET r == breed_kitty(Store, sender, kitty_id_1, kitty_id_2, random_hash)
           IN  (Nonce = U64Max
                \/ max(kitty(Store, kitty_id_1).gen, kitty(Store, kitty_id_2).gen) = U64Max)
                   => (r.res \notin {"Ok", "panic"} /\ r.st = Store)
    /\ \A sender \in Accounts, to \in Accounts, kitty_id \in Existing :
           LET r == transfer(Store, sender, to, kitty_id)
           IN  (/\ owner_of(Store, kitty_id) = sender
                /\ \/ owned_kitty_count(Store, to) = U64Max
                   \/ owned_kitty_count(Store, sender) = 0)
                   => (/\ r.res \notin {"Ok", "panic"}
                       /\ r.st = Store
                       /\ PositionsIn(r.st, sender) = PositionsIn(Store, sender))
    /\ \A sender \in Accounts, kitty_id \in Existing, max_price \in Prices :
           LET r == buy_kitty(Store, sender, kitty_id, max_price)
           IN  owned_kitty_count(Store, sender) = U64Max
                   => (r.res \notin {"Ok", "panic"} /\ r.st = Store)

C13_OwnerChangesOnlyByOwnerTransferOrPaidBuy ==
    /\ [](\A sender \in Accounts, to \in Accounts, t \in Hashes \ Existing :
              LET r == transfer(Store, sender, to, t)
              IN  r.res = "No owner for this kitty" /\ r.st = Store)
    /\ [][\A t \in Existing :
              KittyOwner'[t] # KittyOwner[t] =>
                  /\ last'.res = "Ok"
                  /\ last'.kitty_id = t
                  /\ \/ /\ last'.op = "transfer"
                        /\ last'.sender = KittyOwner[t]
                        /\ KittyOwner'[t] = last'.to
                     \/ /\ last'.op = "buy_kitty"
                        /\ last'.sender # KittyOwner[t]
                        /\ KittyOwner'[t] = last'.sender
                        /\ FreeBalance'[last'.sender]
                               = FreeBalance[last'.sender] - Kitties[t].price
                        /\ FreeBalance'[KittyOwner[t]]
                               = FreeBalance[KittyOwner[t]] + Kitties[t].price]_vars

\* A token changed hands by a buy_kitty whose offer exceeded its price.
C13_Witness ==
    /\ last.op = "buy_kitty"
    /\ last.res = "Ok"
    /\ owner_of(Store, last.kitty_id) = last.sender
    /\ last.price > Events[Len(Events)][5]

\* ------------------------------------------------------------- C14
\* C14: set_price fails with "This cat does not exist" when the token is
\* absent and with "You do not own this cat" when the caller is not its
\* owner, leaving the storage unchanged; otherwise it succeeds, overwrites
\* only the price of that token (its id, dna and gen, every other token, the
\* owners, the indices, the counts, the nonce and the balances stay as they
\* were) and emits PriceSet(caller, token, price).
C14_SetPriceOnlyByOwnerOnlyPrice ==
    \A sender \in Accounts, kitty_id \in Hashes, new_price \in Prices :
        LET r == set_price(Store, sender, kitty_id, new_price)
        IN  IF ~Exists(Kitties, kitty_id)
            THEN r.res = "This cat does not exist" /\ r.st = Store
            ELSE IF owner_of(Store, kitty_id) # sender
            THEN r.res = "You do not own this cat" /\ r.st = Store
            ELSE /\ r.res = "Ok"
                 /\ DOMAIN r.st.Kitties = DOMAIN Kitties
                 /\ r.st.Kitties[kitty_id] = [Kitties[kitty_id] EXCEPT !.price = new_price]
                 /\ \A t \in DOMAIN Kitties \ {kitty_id} : r.st.Kitties[t] = Kitties[t]
                 /\ [r.st EXCEPT !.Kitties = Kitties, !.Events = << >>] = Store
                 /\ r.st.Events = << <<"PriceSet", sender, kitty_id, new_price>> >>

\* The owner of a token set its price to a non-zero value.
C14_Witness ==
    /\ last.op = "set_price"
    /\ last.res = "Ok"
    /\ last.price > 0
    /\ kitty(Store, last.kitty_id).price = last.price
    /\ owner_of(Store, last.kitty_id) = last.sender
    /\ Events = << <<"PriceSet", last.sender, last.kitty_id, last.price>> >>

\* ------------------------------------------------------------- C15
\* The error of the first check of buy_kitty that fails, "" when all pass.
FirstFailedBuyCheck(sender, kitty_id, max_price) ==
    IF ~Exists(Kitties, kitty_id) THEN "This cat does not exist"
    ELSE IF owner_of(Store, kitty_id) = sender THEN "Cat already owned"
    ELSE IF kitty(Store, kitty_id).price = 0 THEN "The cat you want to buy is not for sale"
    ELSE IF kitty(Store, kitty_id).price > max_price
         THEN "The cat you want to buy costs more than your max price"
    ELSE ""

\* C15: buy_kitty fails, with the storage and every balance unchanged, with
\* the not-found error when the token is absent, else with the already-owned
\* error when the caller is its owner, else with the not-for-sale error when
\* its price is zero, else with the price-too-high error when its price
\* exceeds max_price: the checks are made in that order, before any currency
\* moves.
C15_BuyChecksInOrderBeforePayment ==
    \A sender \in Accounts, kitty_id \in Hashes, max_price \in Offers :
        LET r == buy_kitty(Store, sender, kitty_id, max_price)
            expected == FirstFailedBuyCheck(sender, kitty_id, max_price)
        IN  expected # "" =>
                /\ r.res = expected
                /\ r.st = Store
                /\ r.st.FreeBalance = FreeBalance

\* A buy_kitty was refused because the price exceeded the offer.
C15_Witness ==
    /\ last.op = "buy_kitty"
    /\ last.res = "The cat you want to buy costs more than your max price"
    /\ \E sender \in Accounts, kitty_id \in Existing, max_price \in Offers :
           /\ owner_of(Store, kitty_id) # sender
           /\ kitty(Store, kitty_id).price > max_price
           /\ buy_kitty(Store, sender, kitty_id, max_price).res = last.res

\* ------------------------------------------------------------- C16
\* The tokens held in owner o's forward map in storage s.
TokensIn(s, o) == {s.OwnedKittiesArray[<<o, i>>] : i \in PositionsIn(s, o)}

\* C16: after a successful buy_kitty of a token with price p owned by s,
\* exactly p has moved from the caller's balance to s's and no other balance
\* has changed, the token's owner is the caller, the token is no longer in
\* s's index and is in the caller's index at the position its inverse entry
\* names, its stored price is zero, and the last event is
\* Bought(caller, s, token, p) with p the price before the sale.
C16_BuyPostState ==
    \A sender \in Accounts, kitty_id \in Hashes, max_price \in Offers :
        LET r == buy_kitty(Store, sender, kitty_id, max_price)
            seller == owner_of(Store, kitty_id)
            p == kitty(Store, kitty_id).price
        IN  r.res = "Ok" =>
                /\ r.st.FreeBalance[sender] = FreeBalance[sender] - p
                /\ r.st.FreeBalance[seller] = FreeBalance[seller] + p
                /\ \A a \in Accounts \ {sender, seller} : r.st.FreeBalance[a] = FreeBalance[a]
                /\ owner_of(r.st, kitty_id) = sender
                /\ kitty_id \notin TokensIn(r.st, seller)
                /\ kitty_id \in TokensIn(r.st, sender)
                /\ Get(r.st.OwnedKittiesArray,
                       <<sender, Get(r.st.OwnedKittiesIndex, kitty_id, None)>>, None) = kitty_id
                /\ kitty(r.st, kitty_id).price = 0
                /\ r.st.Events[Len(r.st.Events)] = <<"Bought", sender, seller, kitty_id, p>>

\* ------------------------------------------------------------- C17
\* C17: a successful breed_kitty mints a new token owned by the caller, with
\* generation max(gen of parent 1, gen of parent 2) + 1 and price zero, and
\* places it in the global index and in the caller's index exactly as mint
\* does: at global position n and caller's position k, the counts before the
\* call, with both counts incremented and nothing else of the indices
\* touched.
C17_BreedMintsChildOfNextGeneration ==
    [][(last'.op = "breed_kitty" /\ last'.res = "Ok") =>
          LET sender == last'.sender
              child == last'.random_hash
              n == AllKittiesCount
              k == owned_kitty_count(Store, sender)
              minted == mint(Store, sender, child, Get(Kitties', child, DefaultKitty))
          IN  /\ ~Exists(Kitties, child)
              /\ Get(KittyOwner', child, NoAccount) = sender
              /\ Kitties'[child].id = child
              /\ Kitties'[child].price = 0
              /\ Kitties'[child].gen
                     = max(Kitties[last'.kitty_id].gen, Kitties[last'.kitty_id_2].gen) + 1
              /\ AllKittiesCount' = n + 1
              /\ Get(AllKittiesArray', n, None) = child
              /\ Get(AllKittiesIndex', child, None) = n
              /\ Get(OwnedKittiesCount', sender, 0) = k + 1
              /\ Get(OwnedKittiesArray', <<sender, k>>, None) = child
              /\ Get(OwnedKittiesIndex', child, None) = k
              /\ minted.res = "Ok"
              /\ Kitties' = minted.st.Kitties
              /\ KittyOwner' = minted.st.KittyOwner
              /\ AllKittiesArray' = minted.st.AllKittiesArray
              /\ AllKittiesIndex' = minted.st.AllKittiesIndex
              /\ OwnedKittiesArray' = minted.st.OwnedKittiesArray
              /\ OwnedKittiesCount' = minted.st.OwnedKittiesCount
              /\ OwnedKittiesIndex' = minted.st.OwnedKittiesIndex]_vars

\* A breed_kitty of two parents of different generations succeeded, called
\* by an account that owns neither parent.
C17_Witness ==
    /\ last.op = "breed_kitty"
    /\ last.res = "Ok"
    /\ kitty(Store, last.kitty_id).gen < kitty(Store, last.kitty_id_2).gen
    /\ kitty(Store, last.random_hash).gen = kitty(Store, last.kitty_id_2).gen + 1
    /\ owner_of(Store, last.random_hash) = last.sender
    /\ owner_of(Store, last.kitty_id) # last.sender
    /\ owner_of(Store, last.kitty_id_2) # last.sender

\* ------------------------------------------------------------- C18
\* C18: for every two parents' DNA and every random hash, each byte i of the
\* DNA that breed_kitty computes is byte i of parent 2's DNA when byte i of
\* the random hash is even and byte i of parent 1's DNA when it is odd; and
\* that DNA is the one stored for the child when the call succeeds.
C18_ChildDnaBytewiseByParity ==
    \A sender \in Accounts, kitty_id_1 \in DOMAIN Kitties, kitty_id_2 \in DOMAIN Kitties,
       random_hash \in AllHashes :
        LET dna_1 == Kitties[kitty_id_1].dna
            dna_2 == Kitties[kitty_id_2].dna
            final_dna == splice(dna_1, dna_2, random_hash, HashBytes)
            r == breed_kitty(Store, sender, kitty_id_1, kitty_id_2, random_hash)
        IN  /\ final_dna \in AllHashes
            /\ \A i \in 0..(HashBytes - 1) :
                   Byte(final_dna, i) = IF Byte(random_hash, i) % 2 = 0
                                        THEN Byte(dna_2, i)
                                        ELSE Byte(dna_1, i)
            /\ r.res = "Ok" => kitty(r.st, random_hash).dna = final_dna

\* A breed_kitty succeeded whose child took one byte from each parent: its
\* DNA is neither parent's.
C18_Witness ==
    /\ last.op = "breed_kitty"
    /\ last.res = "Ok"
    /\ kitty(Store, last.random_hash).dna # kitty(Store, last.kitty_id).dna
    /\ kitty(Store, last.random_hash).dna # kitty(Store, last.kitty_id_2).dna
    /\ \E i \in 0..(HashBytes - 1) : Byte(last.random_hash, i) = 2

\* ------------------------------------------------------------- C19
\* C19: breed_kitty fails with "Kitty 1 does not exist" when the first parent
\* is absent and with "Kitty 2 does not exist" when only the second is; the
\* failed call creates no token and changes no count, no index and nothing
\* else of the storage.
C19_BreedAbsentParentFails ==
    \A sender \in Accounts, kitty_id_1 \in Hashes, kitty_id_2 \in Hashes, random_hash \in Hashes :
        LET r == breed_kitty(Store, sender, kitty_id_1, kitty_id_2, random_hash)
        IN  /\ ~Exists(Kitties, kitty_id_1) =>
                   (r.res = "Kitty 1 does not exist" /\ r.st = Store)
            /\ (Exists(Kitties, kitty_id_1) /\ ~Exists(Kitties, kitty_id_2)) =>
                   (r.res = "Kitty 2 does not exist" /\ r.st = Store)

\* A breed_kitty naming an existing first parent and an absent second parent
\* was refused while the hash of the absent parent was free for the child.
C19_Witness ==
    /\ last.op = "breed_kitty"
    /\ last.res = "Kitty 2 does not exist"
    /\ AllKittiesCount = 1
    /\ \E kitty_id_2 \in Hashes : ~Exists(Kitties, kitty_id_2)

\* ------------------------------------------------------------- C20
\* C20: every successful mint, by create_kitty or by breed_kitty, emits a
\* Created(owner, token_id) event: the events of a call that minted a token
\* include it, deposited after the storage and index writes of the same call.
C20_MintEmitsCreated ==
    (last.op \in {"create_kitty", "breed_kitty"} /\ last.res = "Ok") =>
        /\ owner_of(Store, last.random_hash) = last.sender
        /\ \E i \in 1..Len(Events) : Events[i] = <<"Created", last.sender, last.random_hash>>

\* ------------------------------------------------------------- C21
\* C21: in every reachable state positions 0..AllKittiesCount-1 of
\* AllKittiesArray, and no others, hold distinct existing tokens,
\* AllKittiesIndex[t] is the position of t in AllKittiesArray for every
\* existing token t, and AllKittiesCount is the number of existing tokens;
\* no step removes or moves a global entry, and a transfer or buy_kitty step
\* leaves the global array, count and inverse map as they were.
C21_GlobalIndexDenseAndAppendOnly ==
    /\ [](/\ DOMAIN AllKittiesArray = 0..(AllKittiesCount - 1)
          /\ \A i \in DOMAIN AllKittiesArray : AllKittiesArray[i] \in Existing
          /\ \A i \in DOMAIN AllKittiesArray, j \in DOMAIN AllKittiesArray :
                 AllKittiesArray[i] = AllKittiesArray[j] => i = j
          /\ DOMAIN AllKittiesIndex = Existing
          /\ DOMAIN Kitties = Existing
          /\ \A t \in Existing : GlobalPositionsOf(t) = {AllKittiesIndex[t]}
          /\ AllKittiesCount = Cardinality(Existing))
    /\ [][/\ \A i \in DOMAIN AllKittiesArray :
                 Get(AllKittiesArray', i, None) = AllKittiesArray[i]
          /\ \A t \in DOMAIN AllKittiesIndex :
                 Get(AllKittiesIndex', t, None) = AllKittiesIndex[t]
          /\ last'.op \in {"transfer", "buy_kitty", "set_price"} =>
                 /\ AllKittiesArray' = AllKittiesArray
                 /\ AllKittiesCount' = AllKittiesCount
                 /\ AllKittiesIndex' = AllKittiesIndex]_vars

\* A buy_kitty of the token at global position 0 succeeded in a registry of
\* several tokens.
C21_Witness ==
    /\ last.op = "buy_kitty"
    /\ last.res = "Ok"
    /\ AllKittiesCount >= 2
    /\ Get(AllKittiesIndex, last.kitty_id, None) = 0
    /\ owner_of(Store, last.kitty_id) = last.sender

\* ------------------------------------------------------------- C22
\* C22: a token that exists exists in every later state, with the same
\* identifier, DNA and generation and still with an owner: no step destroys
\* a token or rewrites those fields, so no identifier is given to a second
\* token.
C22_TokenPersistsWithIdDnaGen ==
    [][\A t \in DOMAIN Kitties :
           /\ t \in DOMAIN Kitties'
           /\ t \in DOMAIN KittyOwner'
           /\ Kitties'[t].id = Kitties[t].id
           /\ Kitties'[t].dna = Kitties[t].dna
           /\ Kitties'[t].gen = Kitties[t].gen]_vars

\* The price of a bred token, of generation 1, was set by its owner.
C22_Witness ==
    /\ last.op = "set_price"
    /\ last.res = "Ok"
    /\ last.price > 0
    /\ kitty(Store, last.kitty_id).gen = 1
    /\ kitty(Store, last.kitty_id).price = last.price

\* ===================================================================== ERC20
\* The ERC20 contract (collect-app/collect-ink/src/lib.rs). Balance is an
\* unsigned integer of 0..BalanceMax (scaled down from u128).
BalanceMax == 3
\* At most MaxTransfers calls of transfer return true in a behaviour.
MaxTransfers == 2
Balances == 0..BalanceMax

\* The contract's storage and the events emitted, as one record.
Contract == [total_supply |-> total_supply, balances |-> balances,
             emitted_events |-> emitted_events]
EmptyContract == [total_supply |-> 0, balances |-> EmptyMap, emitted_events |-> << >>]

TransferEvent(from, to, value) == [from |-> from, to |-> to, value |-> value]
emit(c, event) == [c EXCEPT !.emitted_events = Append(@, event)]

\* deploy that credits the caller without setting the total supply.
deploy_no_supply(c, caller, init_value) ==
    LET c2 == [c EXCEPT !.balances = Insert(@, caller, init_value)]
    IN  emit(c2, TransferEvent(None, caller, init_value))

deploy(c, caller, init_value) ==
    LET c1 == [c EXCEPT !.total_supply = init_value]
        c2 == [c1 EXCEPT !.balances = Insert(@, caller, init_value)]
    IN  emit(c2, TransferEvent(None, caller, init_value))

balance_of_or_zero(c, of) == Get(c.balances, of, 0)
balance_of(c, owner) == balance_of_or_zero(c, owner)

\* transfer_impl emitting its event before the balance check.
transfer_impl_emit_first(c, from, to, value, checks) ==
    LET c0 == emit(c, TransferEvent(from, to, value))
        balance_from == balance_of_or_zero(c0, from)
        balance_to == balance_of_or_zero(c0, to)
    IN  IF balance_from < value THEN [res |-> "false", st |-> c0]
        ELSE LET c1 == [c0 EXCEPT !.balances = Insert(@, from, balance_from - value)]
             IN  IF checks /\ balance_to + value > BalanceMax
                 THEN [res |-> "panic", st |-> c1]
                 ELSE [res |-> "true",
                       st |-> [c1 EXCEPT !.balances =
                                   Insert(@, to, (balance_to + value) % (BalanceMax + 1))]]

\* `balance_to + value` is an unchecked addition: past BalanceMax it panics
\* in a build with overflow checks, after the first insert, and wraps in a
\* build without.
transfer_impl(c, from, to, value, checks) ==
    LET balance_from == balance_of_or_zero(c, from)
        balance_to == balance_of_or_zero(c, to)
    IN  IF balance_from < value THEN [res |-> "false", st |-> c]
        ELSE LET c1 == [c EXCEPT !.balances = Insert(@, from, balance_from - value)]
             IN  IF checks /\ balance_to + value > BalanceMax
                 THEN [res |-> "panic", st |-> c1]
                 ELSE LET c2 == [c1 EXCEPT !.balances =
                                     Insert(@, to, (balance_to + value) % (BalanceMax + 1))]
                      IN  [res |-> "true", st |-> emit(c2, TransferEvent(from, to, value))]

erc20_transfer(c, caller, to, value, checks) == transfer_impl(c, caller, to, value, checks)

\* What erc20_last keeps of a call.
Erc20Call(op, caller, to, value, res) ==
    [op |-> op, caller |-> caller, to |-> to, value |-> value, res |-> res]

\* The kitties module stays as before its genesis.
KittiesNotBuilt ==
    /\ Kitties = EmptyStore.Kitties
    /\ KittyOwner = EmptyStore.KittyOwner
    /\ AllKittiesArray = EmptyStore.AllKittiesArray
    /\ AllKittiesCount = EmptyStore.AllKittiesCount
    /\ AllKittiesIndex = EmptyStore.AllKittiesIndex
    /\ OwnedKittiesArray = EmptyStore.OwnedKittiesArray
    /\ OwnedKittiesCount = EmptyStore.OwnedKittiesCount
    /\ OwnedKittiesIndex = EmptyStore.OwnedKittiesIndex
    /\ Nonce = EmptyStore.Nonce
    /\ FreeBalance = EmptyStore.FreeBalance
    /\ Events = EmptyStore.Events
    /\ last = NoCall

\* The contract as deployed by any caller with any initial supply, in either
\* build.
InitErc20 ==
    /\ \E caller \in Accounts, init_value \in Balances :
           LET c == deploy(EmptyContract, caller, init_value)
           IN  /\ total_supply = c.total_supply
               /\ balances = c.balances
               /\ emitted_events = c.emitted_events
               /\ erc20_last = Erc20Call("deploy", caller, NoAccount, init_value, "Ok")
    /\ true_transfers = 0
    /\ overflow_checks \in BOOLEAN
    /\ KittiesNotBuilt
    /\ GroupsNotBuilt

\* One call of transfer. A panic ends the contract's execution.
Erc20Transfer ==
    \E caller \in Accounts, to \in Accounts, value \in Balances :
        LET r == erc20_transfer(Contract, caller, to, value, overflow_checks)
        IN  /\ erc20_last.res # "panic"
            /\ true_transfers < MaxTransfers
            /\ total_supply' = r.st.total_supply
            /\ balances' = r.st.balances
            /\ emitted_events' = r.st.emitted_events
            /\ true_transfers' = IF r.res = "true" THEN true_transfers + 1 ELSE true_transfers
            /\ erc20_last' = Erc20Call("transfer", caller, to, value, r.res)
            /\ UNCHANGED <<overflow_checks, kitties_vars, groups_vars>>

\* The getter balance_of changes nothing.
Erc20Read ==
    \E owner \in Accounts :
        /\ erc20_last.res # "panic"
        /\ erc20_last' = Erc20Call("balance_of", NoAccount, owner,
                                   balance_of(Contract, owner), "Ok")
        /\ UNCHANGED <<total_supply, balances, emitted_events, true_transfers,
                       overflow_checks, kitties_vars, groups_vars>>

NextErc20 == Erc20Transfer \/ Erc20Read

SpecErc20 == InitErc20 /\ [][NextErc20]_vars

\* ------------------------------------------------------------- C23
\* C23: transfer(to, value) by a caller whose balance is less than value
\* returns false and changes no balance; otherwise it returns true and each
\* account's balance is its old balance, less value if it is the caller,
\* plus value if it is `to` (so a transfer to the caller itself leaves the
\* caller's balance as it was).
C23_TransferMovesValue ==
    \A caller \in Accounts, to \in Accounts, value \in Balances :
        LET r == erc20_transfer(Contract, caller, to, value, overflow_checks)
        IN  IF balance_of(Contract, caller) < value
            THEN r.res = "false" /\ r.st = Contract
            ELSE /\ r.res = "true"
                 /\ \A a \in Accounts :
                        balance_of(r.st, a)
                            = balance_of(Contract, a)
                              - (IF a = caller THEN value ELSE 0)
                              + (IF a = to THEN value ELSE 0)

\* ------------------------------------------------------------- C24
\* C24: deployment emits exactly one Transfer event, from None to the
\* deployer with value init_value; every transfer that returns true emits
\* exactly one Transfer event (from, to, value), a transfer that does not
\* return true emits none, and the number of events emitted is one plus the
\* number of transfers that returned true.
C24_OneEventPerSuccessfulTransfer ==
    /\ [](/\ Len(emitted_events) = 1 + true_transfers
          /\ emitted_events[1].from = None
          /\ erc20_last.op = "deploy" =>
                 emitted_events
                     = << TransferEvent(None, erc20_last.caller, erc20_last.value) >>)
    /\ [][emitted_events' =
              IF erc20_last'.op = "transfer" /\ erc20_last'.res = "true"
              THEN Append(emitted_events,
                          TransferEvent(erc20_last'.caller, erc20_last'.to, erc20_last'.value))
              ELSE emitted_events]_vars

\* A transfer returned false after another had returned true: two events.
C24_Witness ==
    /\ erc20_last.op = "transfer"
    /\ erc20_last.res = "false"
    /\ true_transfers = 1
    /\ Len(emitted_events) = 2
    /\ emitted_events[2].value > 0

\* ------------------------------------------------------------- C25
\* C25: after deploy(init_value) by a caller, total_supply is init_value, the
\* caller's balance is init_value and every other account's balance is 0;
\* no later call changes total_supply.
C25_DeploySetsSupplyTransfersKeepIt ==
    /\ [](erc20_last.op = "deploy" =>
              /\ total_supply = erc20_last.value
              /\ balance_of(Contract, erc20_last.caller) = erc20_last.value
              /\ \A a \in Accounts \ {erc20_last.caller} : balance_of(Contract, a) = 0)
    /\ [](total_supply = emitted_events[1].value)
    /\ [][total_supply' = total_supply]_vars

\* A transfer of a positive value returned true and the supply is still the
\* deployed one.
C25_Witness ==
    /\ erc20_last.op = "transfer"
    /\ erc20_last.res = "true"
    /\ erc20_last.value > 0
    /\ erc20_last.to # erc20_last.caller
    /\ total_supply = emitted_events[1].value
    /\ total_supply > 0

\* ==================================================================== Groups
\* The Groups runtime module (groups-app/groups/runtime/src/groups.rs). Its
\* three configuration values are set at genesis, as in build_ext (scaled
\* down from 12, 5 and 40).
max_group_size == 1
max_groups_per_owner == 2
max_name_size == 1

\* A name is a Vec<u8>; the names offered are one of each length up to one
\* past max_name_size. A max_size offered is up to one past max_group_size.
NameOfLen(n) == [i \in 1..n |-> 1]
Names == {NameOfLen(n) : n \in 0..(max_name_size + 1)}
Sizes == 0..(max_group_size + 1)

Group(id, name, members, max_size) ==
    [id |-> id, name |-> name, members |-> members, max_size |-> max_size]
DefaultGroup == Group(ZeroHash, << >>, << >>, 0)

\* The storage after genesis.
GenesisGroups ==
    [MaxGroupSize |-> max_group_size,
     MaxGroupsPerOwner |-> max_groups_per_owner,
     MaxNameSize |-> max_name_size,
     Groups |-> EmptyMap, GroupOwner |-> EmptyMap, AllGroupsCount |-> 0,
     OwnedGroupsArray |-> EmptyMap, OwnedGroupsCount |-> EmptyMap,
     OwnedGroupsIndex |-> EmptyMap, Nonce |-> 0, Events |-> << >>]

\* The storage a call starts from: no event deposited yet.
GStore == [GroupsModule EXCEPT !.Events = << >>]

group(g, group_id) == Get(g.Groups, group_id, DefaultGroup)
group_owner_of(g, group_id) == Get(g.GroupOwner, group_id, NoAccount)
owned_group_count(g, a) == Get(g.OwnedGroupsCount, a, 0)
contains(members, user) == \E i \in 1..Len(members) : members[i] = user
position(members, user) == CHOOSE i \in 1..Len(members) :
                               members[i] = user /\ \A j \in 1..(i - 1) : members[j] # user
remove_at(members, index) == [i \in 1..(Len(members) - 1) |->
                                 IF i < index THEN members[i] ELSE members[i + 1]]
is_group_member(g, group_id, user) == contains(group(g, group_id).members, user)

create_group(g, sender, name, max_size, group_id) ==
    LET total_groups == g.AllGroupsCount
        new_groups_count == checked_add(total_groups, 1)
        owned_count == owned_group_count(g, sender)
        new_owned_group_count == checked_add(owned_count, 1)
    IN  IF ~(Len(name) <= g.MaxNameSize) THEN Err(g, "Name is too long")
        ELSE IF Exists(g.Groups, group_id) THEN Err(g, "Group Id already exists")
        ELSE IF Exists(g.GroupOwner, group_id) THEN Err(g, "GroupOwner already exists")
        ELSE IF new_groups_count = None THEN Err(g, "Overflow adding a new group")
        ELSE IF new_owned_group_count = None THEN Err(g, "Overflow adding a new group")
        ELSE IF ~(owned_count < g.MaxGroupsPerOwner)
             THEN Err(g, "Groups limit reached for this Account")
        ELSE LET g1 == [g EXCEPT
                          !.Groups = Insert(@, group_id, Group(group_id, name, << >>, max_size)),
                          !.GroupOwner = Insert(@, group_id, sender),
                          !.AllGroupsCount = new_groups_count,
                          !.OwnedGroupsArray = Insert(@, <<sender, owned_count>>, group_id),
                          !.OwnedGroupsCount = Insert(@, sender, new_owned_group_count),
                          !.OwnedGroupsIndex = Insert(@, group_id, owned_count),
                          !.Nonce = wrapping_add(@, 1)]
             IN  Ok(deposit_event(g1, <<"CreatedGroup", group_id, sender, max_size>>))

rename_group(g, sender, group_id, name) ==
    IF ~(Len(name) <= g.MaxNameSize) THEN Err(g, "Name is too long")
    ELSE IF ~Exists(g.Groups, group_id) THEN Err(g, "This group does not exist")
    ELSE IF ~Exists(g.GroupOwner, group_id) THEN Err(g, "No owner for this group")
    ELSE IF group_owner_of(g, group_id) # sender THEN Err(g, "You do not own this group")
    ELSE LET renamed == [group(g, group_id) EXCEPT !.name = name]
             g1 == [g EXCEPT !.Groups = Insert(@, renamed.id, renamed)]
         IN  Ok(deposit_event(g1, <<"GroupRenamed", group_id, name>>))

\* update_group_size without the comparison of the current member count with
\* the new size.
update_group_size_any_count(g, sender, group_id, max_size) ==
    IF ~Exists(g.Groups, group_id) THEN Err(g, "This group does not exist")
    ELSE IF ~Exists(g.GroupOwner, group_id) THEN Err(g, "No owner for this group")
    ELSE IF group_owner_of(g, group_id) # sender THEN Err(g, "You do not own this group")
    ELSE IF ~(max_size <= g.MaxGroupSize) THEN Err(g, "Group size too large")
    ELSE LET old == group(g, group_id)
             current_size == Len(old.members)
             resized == [old EXCEPT !.max_size = max_size]
             g1 == [g EXCEPT !.Groups = Insert(@, resized.id, resized)]
         IN  Ok(deposit_event(g1, <<"GroupSizeChanged", group_id, max_size, current_size>>))

update_group_size(g, sender, group_id, max_size) ==
    IF ~Exists(g.Groups, group_id) THEN Err(g, "This group does not exist")
    ELSE IF ~Exists(g.GroupOwner, group_id) THEN Err(g, "No owner for this group")
    ELSE IF group_owner_of(g, group_id) # sender THEN Err(g, "You do not own this group")
    ELSE IF ~(max_size <= g.MaxGroupSize) THEN Err(g, "Group size too large")
    ELSE LET old == group(g, group_id)
             current_size == Len(old.members)
         IN  IF ~(current_size <= max_size)
             THEN Err(g, "Current member count exceeds new group size")
             ELSE LET resized == [old EXCEPT !.max_size = max_size]
                      g1 == [g EXCEPT !.Groups = Insert(@, resized.id, resized)]
                  IN  Ok(deposit_event(g1,
                            <<"GroupSizeChanged", group_id, max_size, current_size>>))

owner_remove_group(g, sender, group_id) ==
    IF ~Exists(g.Groups, group_id) THEN Err(g, "This group does not exist")
    ELSE IF ~Exists(g.GroupOwner, group_id) THEN Err(g, "No owner for this group")
    ELSE IF group_owner_of(g, group_id) # sender THEN Err(g, "You do not own this group")
    ELSE LET new_groups_count == checked_sub(g.AllGroupsCount, 1)
             new_owned_group_count == checked_sub(owned_group_count(g, sender), 1)
             group_index == Get(g.OwnedGroupsIndex, group_id, 0)
         IN  IF new_groups_count = None THEN Err(g, "Overflow subtracting a group")
             ELSE IF new_owned_group_count = None THEN Err(g, "Overflow subtracting a group")
             ELSE LET g1 == [g EXCEPT
                               !.Groups = Remove(@, group_id),
                               !.GroupOwner = Remove(@, group_id),
                               !.AllGroupsCount = new_groups_count,
                               !.OwnedGroupsArray = Remove(@, <<sender, group_index>>),
                               !.OwnedGroupsCount = Insert(@, sender, new_owned_group_count),
                               !.OwnedGroupsIndex = Remove(@, group_id)]
                  IN  Ok(deposit_event(g1, <<"GroupRemoved", group_id>>))

\* add_member that looks for the account in the list before it compares the
\* list with max_size.
add_member_membership_first(g, group_id, user) ==
    LET old == group(g, group_id)
    IN  IF contains(old.members, user)
        THEN Err(g, "Account is already a member of this group")
        ELSE IF ~(Len(old.members) < old.max_size) THEN Err(g, "Group is already full")
        ELSE LET joined == [old EXCEPT !.members = Append(@, user)]
                 g1 == [g EXCEPT !.Groups = Insert(@, group_id, joined)]
             IN  Ok(deposit_event(g1, <<"MemberJoinedGroup", group_id, user,
                                         joined.max_size, Len(joined.members)>>))

add_member(g, group_id, user) ==
    LET old == group(g, group_id)
    IN  IF ~(Len(old.members) < old.max_size) THEN Err(g, "Group is already full")
        ELSE IF contains(old.members, user)
             THEN Err(g, "Account is already a member of this group")
        ELSE LET joined == [old EXCEPT !.members = Append(@, user)]
                 g1 == [g EXCEPT !.Groups = Insert(@, group_id, joined)]
             IN  Ok(deposit_event(g1, <<"MemberJoinedGroup", group_id, user,
                                         joined.max_size, Len(joined.members)>>))

\* remove_member that removes the head of the list instead of the account's
\* position.
remove_member_head(g, group_id, user) ==
    LET old == group(g, group_id)
    IN  IF ~contains(old.members, user) THEN Err(g, "Account is not a member of this group")
        ELSE LET left == [old EXCEPT !.members = remove_at(@, 0)]
                 g1 == [g EXCEPT !.Groups = Insert(@, group_id, left)]
             IN  Ok(deposit_event(g1, <<"MemberLeftGroup", group_id, user,
                                         left.max_size, Len(left.members)>>))

remove_member(g, group_id, user) ==
    LET old == group(g, group_id)
    IN  IF ~contains(old.members, user) THEN Err(g, "Account is not a member of this group")
        ELSE LET left == [old EXCEPT !.members = remove_at(@, position(@, user))]
                 g1 == [g EXCEPT !.Groups = Insert(@, group_id, left)]
             IN  Ok(deposit_event(g1, <<"MemberLeftGroup", group_id, user,
                                         left.max_size, Len(left.members)>>))

join_group(g, sender, group_id) ==
    IF ~Exists(g.Groups, group_id) THEN Err(g, "This group does not exist")
    ELSE add_member(g, group_id, sender)

leave_group(g, sender, group_id) ==
    IF ~Exists(g.Groups, group_id) THEN Err(g, "This group does not exist")
    ELSE remove_member(g, group_id, sender)

owner_add_member(g, sender, group_id, user) ==
    IF ~Exists(g.Groups, group_id) THEN Err(g, "This group does not exist")
    ELSE IF ~Exists(g.GroupOwner, group_id) THEN Err(g, "No owner for this group")
    ELSE IF group_owner_of(g, group_id) # sender THEN Err(g, "You do not own this group")
    ELSE add_member(g, group_id, user)

\* owner_remove_member without the ownership check.
owner_remove_member_by_anyone(g, sender, group_id, user) ==
    IF ~Exists(g.Groups, group_id) THEN Err(g, "This group does not exist")
    ELSE IF ~Exists(g.GroupOwner, group_id) THEN Err(g, "No owner for this group")
    ELSE remove_member(g, group_id, user)

owner_remove_member(g, sender, group_id, user) ==
    IF ~Exists(g.Groups, group_id) THEN Err(g, "This group does not exist")
    ELSE IF ~Exists(g.GroupOwner, group_id) THEN Err(g, "No owner for this group")
    ELSE IF group_owner_of(g, group_id) # sender THEN Err(g, "You do not own this group")
    ELSE remove_member(g, group_id, user)

\* What groups_last keeps of a call: its name and result, and the arguments
\* of a call that returned Ok.
GCall(op, sender, group_id, user, name, max_size) ==
    [op |-> op, sender |-> sender, group_id |-> group_id, user |-> user,
     name |-> name, max_size |-> max_size, res |-> "Ok"]
NoGCall == GCall("genesis", NoAccount, None, NoAccount, << >>, None)

GDispatch(call, result) ==
    /\ GroupsModule' = result.st
    /\ groups_last' = IF result.res = "Ok" THEN call
                      ELSE [NoGCall EXCEPT !.op = call.op, !.res = result.res]
    /\ UNCHANGED <<kitties_vars, erc20_vars>>

InitGroups ==
    /\ GroupsModule = GenesisGroups
    /\ groups_last = NoGCall
    /\ KittiesNotBuilt
    /\ Erc20NotDeployed

\* group_id is the hash of (random_seed, sender, nonce): any hash. The nonce
\* counts the groups created; a behaviour creates fewer than U64Max.
CreateGroup ==
    \E sender \in Accounts, name \in Names, max_size \in Sizes, group_id \in Hashes :
        /\ GroupsModule.Nonce < U64Max
        /\ GDispatch(GCall("create_group", sender, group_id, NoAccount, name, max_size),
                     create_group(GStore, sender, name, max_size, group_id))

RenameGroup ==
    \E sender \in Accounts, group_id \in Hashes, name \in Names :
        GDispatch(GCall("rename_group", sender, group_id, NoAccount, name, None),
                  rename_group(GStore, sender, group_id, name))

UpdateGroupSize ==
    \E sender \in Accounts, group_id \in Hashes, max_size \in Sizes :
        GDispatch(GCall("update_group_size", sender, group_id, NoAccount, << >>, max_size),
                  update_group_size(GStore, sender, group_id, max_size))

OwnerRemoveGroup ==
    \E sender \in Accounts, group_id \in Hashes :
        GDispatch(GCall("owner_remove_group", sender, group_id, NoAccount, << >>, None),
                  owner_remove_group(GStore, sender, group_id))

JoinGroup ==
    \E sender \in Accounts, group_id \in Hashes :
        GDispatch(GCall("join_group", sender, group_id, sender, << >>, None),
                  join_group(GStore, sender, group_id))

LeaveGroup ==
    \E sender \in Accounts, group_id \in Hashes :
        GDispatch(GCall("leave_group", sender, group_id, sender, << >>, None),
                  leave_group(GStore, sender, group_id))

OwnerAddMember ==
    \E sender \in Accounts, group_id \in Hashes, user \in Accounts :
        GDispatch(GCall("owner_add_member", sender, group_id, user, << >>, None),
                  owner_add_member(GStore, sender, group_id, user))

OwnerRemoveMember ==
    \E sender \in Accounts, group_id \in Hashes, user \in Accounts :
        GDispatch(GCall("owner_remove_member", sender, group_id, user, << >>, None),
                  owner_remove_member(GStore, sender, group_id, user))

NextGroups ==
    \/ CreateGroup \/ RenameGroup \/ UpdateGroupSize \/ OwnerRemoveGroup
    \/ JoinGroup \/ LeaveGroup \/ OwnerAddMember \/ OwnerRemoveMember

SpecGroups == InitGroups /\ [][NextGroups]_vars

\* ------------------------------------------------------------- C26
\* The results of the five owner-only calls made by `sender` on group_id.
OwnerOnlyCalls(sender, group_id, name, max_size, user) ==
    [rename_group |-> rename_group(GStore, sender, group_id, name),
     update_group_size |-> update_group_size(GStore, sender, group_id, max_size),
     owner_remove_group |-> owner_remove_group(GStore, sender, group_id),
     owner_add_member |-> owner_add_member(GStore, sender, group_id, user),
     owner_remove_member |-> owner_remove_member(GStore, sender, group_id, user)]

\* C26 as claimed: every owner-only call made on an existing group by an
\* account other than its owner fails with "You do not own this group" and
\* leaves all storage unchanged, whatever its other arguments.
C26_NonOwnerAlwaysToldNotOwner ==
    \A sender \in Accounts, group_id \in DOMAIN GroupsModule.Groups, name \in Names,
       max_size \in Sizes, user \in Accounts :
        LET calls == OwnerOnlyCalls(sender, group_id, name, max_size, user)
        IN  group_owner_of(GStore, group_id) # sender =>
                \A c \in DOMAIN calls :
                    calls[c].res = "You do not own this group" /\ calls[c].st = GStore

\* C26 amended: every owner-only call made on an existing group by an account
\* other than its owner fails and leaves all storage unchanged; the error is
\* "You do not own this group", except that rename_group with a name longer
\* than MaxNameSize fails with "Name is too long", which it checks first.
C26_NonOwnerFailsStorageUnchanged ==
    \A sender \in Accounts, group_id \in DOMAIN GroupsModule.Groups, name \in Names,
       max_size \in Sizes, user \in Accounts :
        LET calls == OwnerOnlyCalls(sender, group_id, name, max_size, user)
        IN  group_owner_of(GStore, group_id) # sender =>
                \A c \in DOMAIN calls :
                    /\ calls[c].st = GStore
                    /\ calls[c].res =
                           IF c = "rename_group" /\ Len(name) > GroupsModule.MaxNameSize
                           THEN "Name is too long"
                           ELSE "You do not own this group"

\* An owner-only call on a group that has a member was refused to an account
\* that does not own the group.
C26_Witness ==
    /\ groups_last.op \in {"rename_group", "update_group_size", "owner_remove_group",
                           "owner_add_member", "owner_remove_member"}
    /\ groups_last.res = "You do not own this group"
    /\ \E group_id \in DOMAIN GroupsModule.Groups :
           Len(GroupsModule.Groups[group_id].members) > 0

\* ------------------------------------------------------------- C27
\* C27: on an existing group whose member count equals its max_size,
\* join_group by any account (the owner and the current members included) and
\* owner_add_member by the owner of any account fail with "Group is already
\* full"; leave_group by an account that is not a member and
\* owner_remove_member by the owner of an account that is not a member fail
\* with "Account is not a member of this group"; all of them leave the group
\* and the rest of storage unchanged.
C27_FullGroupAndNonMemberRefused ==
    \A group_id \in DOMAIN GroupsModule.Groups, user \in Accounts :
        LET the_group == group(GStore, group_id)
            owner == group_owner_of(GStore, group_id)
            joins == {join_group(GStore, user, group_id),
                      owner_add_member(GStore, owner, group_id, user)}
            leaves == {leave_group(GStore, user, group_id),
                       owner_remove_member(GStore, owner, group_id, user)}
        IN  /\ Len(the_group.members) = the_group.max_size =>
                \A r \in joins : r.res = "Group is already full" /\ r.st = GStore
            /\ ~is_group_member(GStore, group_id, user) =>
                \A r \in leaves : /\ r.res = "Account is not a member of this group"
                                  /\ r.st = GStore

\* A join was refused on a full group that has a member, and an account
\* outside the group could be refused a leave.
C27_Witness ==
    /\ groups_last.op \in {"join_group", "owner_add_member"}
    /\ groups_last.res = "Group is already full"
    /\ \E group_id \in DOMAIN GroupsModule.Groups, user \in Accounts :
           LET the_group == group(GStore, group_id)
           IN  /\ Len(the_group.members) = the_group.max_size
               /\ the_group.max_size > 0
               /\ ~is_group_member(GStore, group_id, user)
               /\ group_owner_of(GStore, group_id) = the_group.members[1]

\* ------------------------------------------------------------- C28
\* The account a successful membership call is about: the sender of
\* join_group and leave_group, the user argument of the owner's calls.
MemberOf(call) ==
    IF call.op \in {"join_group", "leave_group"} THEN call.sender ELSE call.user

\* C28: a successful join_group or owner_add_member of account u makes
\* is_group_member(group, u) true and the member count one larger; a
\* successful leave_group or owner_remove_member of u makes it false and the
\* count one smaller; the membership of every other account stays as it was.
C28_MembershipChangesByOne ==
    [][ /\ groups_last'.res = "Ok"
        /\ groups_last'.op \in {"join_group", "owner_add_member",
                                "leave_group", "owner_remove_member"}
        => LET group_id == groups_last'.group_id
               u == MemberOf(groups_last')
               before == Len(group(GroupsModule, group_id).members)
               after == Len(group(GroupsModule', group_id).members)
               joining == groups_last'.op \in {"join_group", "owner_add_member"}
           IN  /\ is_group_member(GroupsModule', group_id, u) = joining
               /\ is_group_member(GroupsModule, group_id, u) = ~joining
               /\ after = IF joining THEN before + 1 ELSE before - 1
               /\ \A other \in Accounts \ {u} :
                      is_group_member(GroupsModule', group_id, other)
                          = is_group_member(GroupsModule, group_id, other)
      ]_vars

\* An account has just left a group of two members; the other one stays.
C28_Witness ==
    /\ groups_last.op \in {"leave_group", "owner_remove_member"}
    /\ groups_last.res = "Ok"
    /\ Len(group(GroupsModule, groups_last.group_id).members) = 1
    /\ ~is_group_member(GroupsModule, groups_last.group_id, MemberOf(groups_last))

\* ------------------------------------------------------------- C29
\* C29: in every reachable state, every existing group has at most max_size
\* members.
C29_MembersWithinMaxSize ==
    \A group_id \in DOMAIN GroupsModule.Groups :
        Len(GroupsModule.Groups[group_id].members) <= GroupsModule.Groups[group_id].max_size

\* The owner has just resized a group that has members to exactly its member
\* count, and a smaller size is refused.
C29_Witness ==
    /\ groups_last.op = "update_group_size"
    /\ groups_last.res = "Ok"
    /\ LET resized == group(GroupsModule, groups_last.group_id)
       IN  /\ Len(resized.members) = resized.max_size
           /\ resized.max_size > 0
           /\ update_group_size(GStore, groups_last.sender, resized.id, resized.max_size - 1).res
                  = "Current member count exceeds new group size"

\* ------------------------------------------------------------- C30
\* C30: in every reachable state, every existing group's max_size and the
\* length of its member list are at most the MaxGroupSize configuration
\* value, whatever max_size the group was created with.
C30_GroupSizeWithinConfig ==
    \A group_id \in DOMAIN GroupsModule.Groups :
        /\ GroupsModule.Groups[group_id].max_size <= GroupsModule.MaxGroupSize
        /\ Len(GroupsModule.Groups[group_id].members) <= GroupsModule.MaxGroupSize

\* ------------------------------------------------------------- C31
\* The getter of OwnedGroupsArray: the default hash where nothing is stored.
owned_group_by_index(g, owner, i) == Get(g.OwnedGroupsArray, <<owner, i>>, ZeroHash)

\* C31: for every owner o and every index i < owned_group_count(o),
\* owned_group_by_index((o, i)) is an existing group owned by o; every
\* existing group owned by o is found at exactly one such index, and
\* OwnedGroupsIndex of that group is that index.
C31_OwnedGroupsEnumerable ==
    \A o \in Accounts :
        LET count == owned_group_count(GStore, o)
            Positions == 0..(count - 1)
        IN  /\ \A i \in Positions :
                   /\ Exists(GroupsModule.OwnedGroupsArray, <<o, i>>)
                   /\ Exists(GroupsModule.Groups, owned_group_by_index(GStore, o, i))
                   /\ group_owner_of(GStore, owned_group_by_index(GStore, o, i)) = o
            /\ \A group_id \in DOMAIN GroupsModule.Groups :
                   group_owner_of(GStore, group_id) = o =>
                       /\ Cardinality({i \in Positions :
                                          owned_group_by_index(GStore, o, i) = group_id}) = 1
                       /\ Exists(GroupsModule.OwnedGroupsIndex, group_id)
                       /\ GroupsModule.OwnedGroupsIndex[group_id] \in Positions
                       /\ owned_group_by_index(GStore, o, GroupsModule.OwnedGroupsIndex[group_id])
                              = group_id

\* ------------------------------------------------------------- C35
\* The five calls, with every transfer made to an account other than its
\* caller.
TransferToOther ==
    \E sender \in Accounts, to \in Accounts, kitty_id \in Hashes :
        /\ to # sender
        /\ Dispatch(Call("transfer", sender, to, kitty_id, None, None, None),
                    transfer(Store, sender, to, kitty_id))

NextNoSelfTransfer == CreateKitty \/ SetPrice \/ TransferToOther \/ BuyKitty \/ BreedKitty

SpecNoSelfTransfer == Init /\ [][NextNoSelfTransfer]_vars

\* C35: in every state reached by create_kitty, breed_kitty, set_price,
\* buy_kitty and transfers to accounts other than the caller, every owner's
\* count is the number of tokens it owns, its positions 0..count-1 hold
\* exactly its tokens and nothing is stored at another position, and every
\* token's OwnedKittiesIndex is its position in its owner's forward map.
C35_OwnerIndexConsistentWithoutSelfTransfer ==
    /\ \A o \in Accounts :
           LET count == owned_kitty_count(Store, o)
           IN  /\ count = Cardinality({t \in DOMAIN KittyOwner : KittyOwner[t] = o})
               /\ PositionsIn(Store, o) = 0..(count - 1)
               /\ TokensIn(Store, o) = {t \in DOMAIN KittyOwner : KittyOwner[t] = o}
    /\ \A t \in DOMAIN KittyOwner :
           /\ Exists(OwnedKittiesIndex, t)
           /\ Get(OwnedKittiesArray, <<KittyOwner[t], OwnedKittiesIndex[t]>>, None) = t

\* A transfer to another account has just left its sender with one token,
\* stored at position 0, out of the two it had.
C35_Witness ==
    /\ last.op = "transfer"
    /\ last.res = "Ok"
    /\ last.to # last.sender
    /\ owned_kitty_count(Store, last.sender) = 1
    /\ \E t \in DOMAIN KittyOwner :
           /\ KittyOwner[t] = last.sender
           /\ t # last.kitty_id
           /\ OwnedKittiesIndex[t] = 0

\* ------------------------------------------------------------- C32
\* C32: in every reachable state the recorded owner of every token has a
\* count of at least 1, so no transfer by the owner, and no transfer_from
\* that buy_kitty makes from the owner to a buyer, fails with the underflow
\* error.
C32_OwnerCountAtLeastOne ==
    /\ \A t \in DOMAIN KittyOwner : owned_kitty_count(Store, KittyOwner[t]) >= 1
    /\ \A sender \in Accounts, to \in Accounts, kitty_id \in Hashes :
           /\ transfer(Store, sender, to, kitty_id).res
                  # "Overflow subtracing a new kitty to account balance"
           /\ transfer_from(Store, owner_of(Store, kitty_id), to, kitty_id).res
                  # "Overflow subtracing a new kitty to account balance"

\* An owner has just moved its only token to another account, by transfer or
\* by sale, and its count is now 0.
C32_Witness ==
    /\ last.res = "Ok"
    /\ \/ last.op = "transfer" /\ last.to # last.sender
             /\ owned_kitty_count(Store, last.sender) = 0
       \/ last.op = "buy_kitty"
             /\ \E e \in 1..Len(Events) :
                    Events[e][1] = "Transferred" /\ owned_kitty_count(Store, Events[e][2]) = 0
    /\ KittyOwner # EmptyMap

\* ------------------------------------------------------------- C33
\* C33: a call that does not succeed emits nothing; every event a call emits
\* describes the storage that call has written: a Transferred(from, to,
\* token) is emitted by a step that took owner_of(token) from `from` to `to`,
\* a PriceSet(owner, token, price) by a step that stored that price, a
\* Bought(buyer, seller, token, price) by a step that made the buyer the
\* owner.
C33_EventsOnlyAfterSuccessfulWrites ==
    /\ [](last.res # "Ok" => Events = << >>)
    /\ [][ \A e \in 1..Len(Events') :
             LET event == Events'[e]
             IN  /\ last'.res = "Ok"
                 /\ event[1] = "Transferred" =>
                        /\ owner_of(Store, event[4]) = event[2]
                        /\ owner_of(Store', event[4]) = event[3]
                        /\ last'.op \in {"transfer", "buy_kitty"}
                 /\ event[1] = "PriceSet" =>
                        /\ kitty(Store', event[3]).price = event[4]
                        /\ owner_of(Store', event[3]) = event[2]
                 /\ event[1] = "Bought" =>
                        /\ owner_of(Store, event[4]) = event[3]
                        /\ owner_of(Store', event[4]) = event[2]
                        /\ kitty(Store, event[4]).price = event[5]
      ]_vars

\* A buy_kitty has emitted Transferred and Bought for a token that changed
\* owner, and that token's new owner can be refused a buy of it.
C33_Witness ==
    /\ last.op = "buy_kitty"
    /\ last.res = "Ok"
    /\ Len(Events) = 2
    /\ Events[1][1] = "Transferred"
    /\ Events[1][2] # Events[1][3]
    /\ owner_of(Store, Events[1][4]) = Events[1][3]
    /\ buy_kitty(Store, last.sender, last.kitty_id, last.price).res = "Cat already owned"

\* ------------------------------------------------------------- C34
\* The sum of owned_kitty_count over the accounts of set S.
RECURSIVE SumOfOwnedCounts(_)
SumOfOwnedCounts(S) ==
    IF S = {} THEN 0
    ELSE LET a == CHOOSE x \in S : TRUE
         IN  owned_kitty_count(Store, a) + SumOfOwnedCounts(S \ {a})

\* C34: in every reachable state the counts of all owners add up to
\* AllKittiesCount, and so no owner's count is above the global count.
C34_OwnedCountsSumToAllKittiesCount ==
    /\ SumOfOwnedCounts(Accounts) = AllKittiesCount
    /\ \A o \in Accounts : owned_kitty_count(Store, o) <= AllKittiesCount

\* ------------------------------------------------------------- C36
\* A step that takes the price of an existing token from non-zero to zero.
PriceResetStep(t) ==
    /\ Exists(Kitties, t)
    /\ kitty(Store, t).price # 0
    /\ kitty(Store', t).price = 0

\* C36 as claimed: a successful transfer leaves every token record as it was,
\* the token staying for sale at its price under the new owner, and a price
\* goes from non-zero to zero only in a buy_kitty of that token.
C36_TransferKeepsRecordOnlyBuyResets ==
    [][ /\ (last'.op = "transfer" /\ last'.res = "Ok") =>
               /\ Kitties' = Kitties
               /\ owner_of(Store', last'.kitty_id) = last'.to
        /\ \A t \in Hashes :
               PriceResetStep(t) => (last'.op = "buy_kitty" /\ last'.kitty_id = t)
      ]_vars

\* C36 amended: a successful transfer leaves every token record (price, DNA,
\* generation) as it was, the token staying for sale at its price under the
\* new owner; a price goes from non-zero to zero only in a buy_kitty of that
\* token or in a set_price of that token to zero by its owner.
C36_TransferKeepsRecordBuyOrOwnerResets ==
    [][ /\ (last'.op = "transfer" /\ last'.res = "Ok") =>
               /\ Kitties' = Kitties
               /\ owner_of(Store', last'.kitty_id) = last'.to
        /\ \A t \in Hashes :
               PriceResetStep(t) =>
                   /\ last'.res = "Ok"
                   /\ last'.kitty_id = t
                   /\ \/ last'.op = "buy_kitty"
                      \/ /\ last'.op = "set_price"
                         /\ last'.price = 0
                         /\ last'.sender = owner_of(Store, t)
      ]_vars

\* A token priced above zero has just been transferred to another account,
\* and its former owner can buy it back at that price.
C36_Witness ==
    /\ last.op = "transfer"
    /\ last.res = "Ok"
    /\ last.to # last.sender
    /\ kitty(Store, last.kitty_id).price > 0
    /\ owner_of(Store, last.kitty_id) = last.to
    /\ buy_kitty(Store, last.sender, last.kitty_id, kitty(Store, last.kitty_id).price).res = "Ok"

\* ------------------------------------------------------------- C37
\* mint accepts a new token `id` for account `to`: neither count is at its
\* maximum and the id is free.
MintAccepts(s, to, id) ==
    /\ owned_kitty_count(s, to) < U64Max
    /\ s.AllKittiesCount < U64Max
    /\ ~Exists(s.KittyOwner, id)

\* C37: breed_kitty of two existing parents, which may be the same token,
\* succeeds for every caller that mint accepts the child for, whether or not
\* the caller owns a parent; a successful breed_kitty leaves both parents'
\* records, owners and index positions as they were, and of the per-owner
\* counts and forward maps it changes only the caller's.
C37_BreedByAnyCallerKeepsParents ==
    /\ [](\A sender \in Accounts, kitty_id_1 \in DOMAIN Kitties, kitty_id_2 \in DOMAIN Kitties,
             random_hash \in AllHashes :
               MintAccepts(Store, sender, random_hash) =>
                   breed_kitty(Store, sender, kitty_id_1, kitty_id_2, random_hash).res = "Ok")
    /\ [][ (last'.op = "breed_kitty" /\ last'.res = "Ok") =>
               /\ \A p \in {last'.kitty_id, last'.kitty_id_2} :
                      /\ kitty(Store', p) = kitty(Store, p)
                      /\ owner_of(Store', p) = owner_of(Store, p)
                      /\ OwnedKittiesIndex'[p] = OwnedKittiesIndex[p]
                      /\ AllKittiesIndex'[p] = AllKittiesIndex[p]
               /\ \A o \in Accounts \ {last'.sender} :
                      /\ owned_kitty_count(Store', o) = owned_kitty_count(Store, o)
                      /\ PositionsIn(Store', o) = PositionsIn(Store, o)
                      /\ \A i \in PositionsIn(Store, o) :
                             OwnedKittiesArray'[<<o, i>>] = OwnedKittiesArray[<<o, i>>]
               /\ owned_kitty_count(Store', last'.sender)
                      = owned_kitty_count(Store, last'.sender) + 1
      ]_vars

\* A caller that owns no parent has just bred a token with itself; the child
\* is the caller's and the parent is still its owner's.
C37_Witness ==
    /\ last.op = "breed_kitty"
    /\ last.res = "Ok"
    /\ last.kitty_id = last.kitty_id_2
    /\ owner_of(Store, last.kitty_id) # last.sender
    /\ owner_of(Store, last.random_hash) = last.sender
    /\ owned_kitty_count(Store, last.sender) = 1
====
